---------------------------- MODULE Spec2Model ----------------------------
(***************************************************************************)
(* Model of the patch scripts of artpromedia/email (src/*.py and           *)
(* src/scripts/*.py).  A file's text is a sequence of tokens: every token  *)
(* is a piece of text that the scripts' search patterns treat as a unit    *)
(* (a pattern is a sequence of tokens).  str.replace, `in`, split and join *)
(* are computed on token sequences the way Python computes them on         *)
(* characters: leftmost first, non-overlapping, all occurrences.           *)
(*                                                                         *)
(* Every script is a sequential program: pc is its position, content is    *)
(* its in-memory buffer (the Python variable `content` or `lines`), disk   *)
(* is the file system, out is what it has printed.                         *)
(***************************************************************************)
EXTENDS Integers, Sequences, FiniteSets, TLC

VARIABLES
    disk,      \* path -> file text (sequence of tokens)
    fstat,     \* path -> "ok", "missing" (open(path,'r') raises) or
               \*         "readonly" (open(path,'w') raises)
    pc,        \* position of the running script (per process when concurrent)
    content,   \* the script's in-memory buffer (per process when concurrent)
    ri,        \* index of the next statement of the current rule sequence
    loc,       \* the other local variables of the running script
    out,       \* lines printed so far
    run,       \* number of the current run of the script (1 or 2)
    orig,      \* history: disk when the first run started
    after1,    \* history: disk when the first run ended
    trace,     \* history: one record per rule statement executed
    io         \* history: the reads and writes of files, in order

vars == <<disk, fstat, pc, content, ri, loc, out, run, orig, after1, trace, io>>

----------------------------------------------------------------------------
(* Python string primitives on token sequences                             *)

SeqsUpTo(S, n) == UNION {[1..k -> S] : k \in 0..n}

\* s.startswith(p)
StartsWith(s, p) == Len(s) >= Len(p) /\ SubSeq(s, 1, Len(p)) = p

\* p in s  (substring test)
Contains(s, p) == \E i \in 1..(Len(s) - Len(p) + 1) : SubSeq(s, i, i + Len(p) - 1) = p

\* s.find(p), 1-based; 0 when absent
Find(s, p) ==
    IF Contains(s, p)
    THEN CHOOSE i \in 1..(Len(s) - Len(p) + 1) :
            /\ SubSeq(s, i, i + Len(p) - 1) = p
            /\ \A j \in 1..(i - 1) : SubSeq(s, j, j + Len(p) - 1) # p
    ELSE 0

\* s.count(p): non-overlapping occurrences, leftmost first
RECURSIVE Count(_, _)
Count(s, p) ==
    IF Len(s) < Len(p) \/ Len(p) = 0 THEN 0
    ELSE IF StartsWith(s, p) THEN 1 + Count(SubSeq(s, Len(p) + 1, Len(s)), p)
    ELSE Count(Tail(s), p)

\* s.replace(old, new): every non-overlapping occurrence, leftmost first;
\* the replacement text is not rescanned
RECURSIVE Replace(_, _, _)
Replace(s, old, new) ==
    IF Len(s) < Len(old) \/ Len(old) = 0 THEN s
    ELSE IF StartsWith(s, old)
         THEN new \o Replace(SubSeq(s, Len(old) + 1, Len(s)), old, new)
         ELSE <<Head(s)>> \o Replace(Tail(s), old, new)

\* s.split(sep): the pieces between the occurrences of sep; never empty
RECURSIVE Split(_, _)
Split(s, sep) ==
    IF ~Contains(s, sep) THEN <<s>>
    ELSE LET i == Find(s, sep)
         IN  <<SubSeq(s, 1, i - 1)>> \o Split(SubSeq(s, i + Len(sep), Len(s)), sep)

\* sep.join(pieces)
RECURSIVE Join(_, _)
Join(pieces, sep) ==
    IF pieces = <<>> THEN <<>>
    ELSE IF Len(pieces) = 1 THEN pieces[1]
    ELSE pieces[1] \o sep \o Join(Tail(pieces), sep)

NL == "\n"
TAB == "\t"
Whitespace == {NL, TAB, " "}

\* line.strip()
RECURSIVE LStrip(_)
LStrip(s) == IF s # <<>> /\ Head(s) \in Whitespace THEN LStrip(Tail(s)) ELSE s

RECURSIVE RStrip(_)
RStrip(s) ==
    IF s # <<>> /\ s[Len(s)] \in Whitespace THEN RStrip(SubSeq(s, 1, Len(s) - 1)) ELSE s

Strip(s) == RStrip(LStrip(s))

\* some token of s is one of toks: the text that toks stand for occurs in s
HasText(s, toks) == \E i \in 1..Len(s) : s[i] \in toks

\* the number of tokens of s that are among toks
CountIn(s, toks) == Cardinality({i \in 1..Len(s) : s[i] \in toks})

\* s.split(stop)[0] where toks are the tokens that hold stop
PrefixBefore(s, toks) ==
    IF HasText(s, toks)
    THEN SubSeq(s, 1, (CHOOSE i \in 1..Len(s) :
                          s[i] \in toks /\ \A j \in 1..(i - 1) : s[j] \notin toks) - 1)
    ELSE s

----------------------------------------------------------------------------
(* Steps shared by the scripts                                             *)

\* with open(path, 'r') as f: content = f.read()
\* an open() that raises ends the script with a traceback
\* locals: the values the script gives its other variables next to the read
ReadInto(path, here, next, locals) ==
    /\ pc = here
    /\ \/ /\ fstat[path] # "missing"
          /\ content' = disk[path]
          /\ loc' = locals
          /\ io' = Append(io, [op |-> "read", path |-> path, run |-> run, text |-> disk[path]])
          /\ pc' = next
       \/ /\ fstat[path] = "missing"
          /\ UNCHANGED <<content, loc, io>>
          /\ pc' = "traceback"
    /\ ri' = 1
    /\ UNCHANGED <<disk, fstat, out, run, orig, after1, trace>>

ReadFile(path, here, next) == ReadInto(path, here, next, loc)

\* with open(path, 'w') as f: f.write(text), then the prints msgs.
\* open(path, 'w') truncates the file, write and close fill it; the three
\* are one step here and separate steps in WriteOpen, WriteData, WriteClose.
WriteText(path, text, here, next, msgs) ==
    /\ pc = here
    /\ \/ /\ fstat[path] # "readonly"
          /\ disk' = [disk EXCEPT ![path] = text]
          /\ fstat' = [fstat EXCEPT ![path] = "ok"]
          /\ io' = Append(io, [op |-> "write", path |-> path, run |-> run, text |-> text])
          /\ out' = out \o msgs
          /\ pc' = next
       \/ /\ fstat[path] = "readonly"
          /\ UNCHANGED <<disk, fstat, io, out>>
          /\ pc' = "traceback"
    /\ UNCHANGED <<content, ri, loc, run, orig, after1, trace>>

WriteFile(path, here, next, msgs) == WriteText(path, content, here, next, msgs)

\* open(path, 'w'): the file is truncated to nothing before any data is written
WriteOpen(path, text, here, next) ==
    /\ pc = here
    /\ \/ /\ fstat[path] # "readonly"
          /\ disk' = [disk EXCEPT ![path] = <<>>]
          /\ fstat' = [fstat EXCEPT ![path] = "ok"]
          /\ io' = Append(io, [op |-> "write", path |-> path, run |-> run, text |-> text])
          /\ pc' = next
       \/ /\ fstat[path] = "readonly"
          /\ UNCHANGED <<disk, fstat, io>>
          /\ pc' = "traceback"
    /\ UNCHANGED <<content, ri, loc, out, run, orig, after1, trace>>

\* f.write(text) / f.writelines(lines): the buffered data reaches the file a
\* piece at a time, in order
WriteData(path, text, here) ==
    /\ pc = here
    /\ Len(disk[path]) < Len(text)
    /\ disk' = [disk EXCEPT ![path] = SubSeq(text, 1, Len(disk[path]) + 1)]
    /\ UNCHANGED <<fstat, pc, content, ri, loc, out, run, orig, after1, trace, io>>

\* leaving the with block closes the file: what is still buffered is flushed
WriteClose(path, text, here, next, msgs) ==
    /\ pc = here
    /\ disk' = [disk EXCEPT ![path] = text]
    /\ out' = out \o msgs
    /\ pc' = next
    /\ UNCHANGED <<fstat, content, ri, loc, run, orig, after1, trace, io>>

Ended == pc \in {"done", "traceback", "crashed"}

\* the process is killed (SIGKILL, power loss) between two steps
Crash ==
    /\ ~Ended
    /\ pc' = "crashed"
    /\ UNCHANGED <<disk, fstat, content, ri, loc, out, run, orig, after1, trace, io>>

Rule(old, new, msg) == [old |-> old, new |-> new, msg |-> msg]

\* content = content.replace(old, new) for statement ri of `rules`, followed
\* by the print, if any, that the script makes after that statement
ReplaceStep(path, rules, here, next) ==
    /\ pc = here
    /\ ri \in 1..Len(rules)
    /\ LET r == rules[ri]
           b == Replace(content, r.old, r.new)
       IN  /\ content' = b
           /\ trace' = Append(trace, [path |-> path, rule |-> ri, run |-> run,
                                      old |-> r.old, before |-> content,
                                      after |-> b, msg |-> r.msg])
           /\ out' = out \o r.msg
    /\ ri' = ri + 1
    /\ pc' = IF ri = Len(rules) THEN next ELSE here
    /\ UNCHANGED <<disk, fstat, loc, run, orig, after1, io>>

\* a statement outside a rule table that sets content to b and prints msgs;
\* old is the pattern it searched for
EditStep(path, id, old, b, msgs, here, next) ==
    /\ pc = here
    /\ content' = b
    /\ trace' = Append(trace, [path |-> path, rule |-> id, run |-> run,
                               old |-> old, before |-> content,
                               after |-> b, msg |-> msgs])
    /\ out' = out \o msgs
    /\ pc' = next
    /\ UNCHANGED <<disk, fstat, ri, loc, run, orig, after1, io>>

\* a statement guarded by an `if` whose condition is false
SkipStep(here, next) ==
    /\ pc = here
    /\ pc' = next
    /\ UNCHANGED <<disk, fstat, content, ri, loc, out, run, orig, after1, trace, io>>

\* a print statement on its own
PrintStep(msgs, here, next) ==
    /\ pc = here
    /\ out' = out \o msgs
    /\ pc' = next
    /\ UNCHANGED <<disk, fstat, content, ri, loc, run, orig, after1, trace, io>>

\* the operator starts the same script again on the files the first run left
Rerun(end, start) ==
    /\ pc = end
    /\ run = 1
    /\ run' = 2
    /\ after1' = disk
    /\ pc' = start
    /\ UNCHANGED <<disk, fstat, content, ri, loc, out, orig, trace, io>>

\* the state a script starts in, once disk and fstat are chosen
Start(first) ==
    /\ pc = first
    /\ content = <<>>
    /\ ri = 1
    /\ loc = <<>>
    /\ out = <<>>
    /\ run = 1
    /\ orig = disk
    /\ after1 = disk
    /\ trace = <<>>
    /\ io = <<>>

AllOk(paths) == [p \in paths |-> "ok"]

\* a file that does not exist has no text
MissingIsEmpty == \A p \in DOMAIN disk : fstat[p] = "missing" => disk[p] = <<>>

\* the rule records of the trace that belong to one file and one run
RECURSIVE TraceOf(_, _, _)
TraceOf(t, path, r) ==
    IF t = <<>> THEN <<>>
    ELSE IF Head(t).path = path /\ Head(t).run = r
         THEN <<Head(t)>> \o TraceOf(Tail(t), path, r)
         ELSE TraceOf(Tail(t), path, r)

Range(s) == {s[i] : i \in 1..Len(s)}

----------------------------------------------------------------------------
(* src/scripts/fix_calendar5.py                                            *)

svc_path == "/opt/oonrumail/app/services/calendar/service/calendar.go"
notif_path == "/opt/oonrumail/app/services/calendar/service/notification.go"

strings_import == "\t\"strings\"\n"
old_freebusy == "fbr := &models.FreeBusyResponse{ ... FreeBusy: userPeriods[uid], ... }"
new_freebusy == "var freeBusySlots []models.FreeBusy ... FreeBusy: freeBusySlots, }"

\* tokens of notification.go: 's.config', '.Notification', the plural 's',
\* '.SMTP' and the field names
CFG == "s.config"
NOTIF == ".Notification"
PLURAL == "s"
SMTP == ".SMTP"
HOST == ".Host"
PORT == ".Port"
FROM == ".From"
SMTPHOST == ".SMTPHost"
SMTPPORT == ".SMTPPort"
FROMEMAIL == ".FromEmail"

fix_calendar5_svc_rules ==
    << Rule(<<strings_import>>, <<>>, <<"Removed unused strings import">>),
       Rule(<<old_freebusy>>, <<new_freebusy>>, <<"Fixed FreeBusy type conversion">>) >>

fix_calendar5_notif_rules_catchall_first ==
    << Rule(<<CFG, SMTP>>, <<CFG, NOTIF>>, <<>>),
       Rule(<<CFG, NOTIF, PLURAL>>, <<CFG, NOTIF>>, <<>>),
       Rule(<<CFG, SMTP, HOST>>, <<CFG, NOTIF, SMTPHOST>>, <<>>),
       Rule(<<CFG, SMTP, PORT>>, <<CFG, NOTIF, SMTPPORT>>, <<>>),
       Rule(<<CFG, SMTP, FROM>>, <<CFG, NOTIF, FROMEMAIL>>,
            <<"Fixed notification.go config references">>) >>

fix_calendar5_notif_rules ==
    << Rule(<<CFG, NOTIF, PLURAL>>, <<CFG, NOTIF>>, <<>>),
       Rule(<<CFG, SMTP, HOST>>, <<CFG, NOTIF, SMTPHOST>>, <<>>),
       Rule(<<CFG, SMTP, PORT>>, <<CFG, NOTIF, SMTPPORT>>, <<>>),
       Rule(<<CFG, SMTP, FROM>>, <<CFG, NOTIF, FROMEMAIL>>, <<>>),
       Rule(<<CFG, SMTP>>, <<CFG, NOTIF>>,
            <<"Fixed notification.go config references">>) >>

c5_ReadSvc == ReadFile(svc_path, "c5_read_svc", "c5_svc_rules")
c5_SvcRule == ReplaceStep(svc_path, fix_calendar5_svc_rules, "c5_svc_rules", "c5_write_svc")
c5_WriteSvc == WriteFile(svc_path, "c5_write_svc", "c5_read_notif", <<>>)
c5_ReadNotif == ReadFile(notif_path, "c5_read_notif", "c5_notif_rules")
c5_NotifRule == ReplaceStep(notif_path, fix_calendar5_notif_rules, "c5_notif_rules", "c5_write_notif")
c5_WriteNotif == WriteFile(notif_path, "c5_write_notif", "done", <<"All fixes applied!">>)

\* inputs of fix_calendar5.py: three calendar.go files, and every
\* notification.go of at most MaxNotifLen tokens
MaxNotifLen == 4

Cal5SvcInputs == {<<>>, <<strings_import, "x">>, <<strings_import, old_freebusy>>}
Cal5NotifInputs == SeqsUpTo({CFG, NOTIF, PLURAL, SMTP, HOST, PORT, FROM}, MaxNotifLen)

InitCal5 ==
    /\ \E s \in Cal5SvcInputs, n \in Cal5NotifInputs :
          disk = (svc_path :> s) @@ (notif_path :> n)
    /\ \E p \in {svc_path, notif_path}, st \in {"ok", "missing", "readonly"} :
          fstat = [AllOk({svc_path, notif_path}) EXCEPT ![p] = st]
    /\ MissingIsEmpty
    /\ Start("c5_read_svc")

NextCal5 ==
    \/ c5_ReadSvc
    \/ c5_SvcRule
    \/ c5_WriteSvc
    \/ c5_ReadNotif
    \/ c5_NotifRule
    \/ c5_WriteNotif

SpecCal5 == InitCal5 /\ [][NextCal5]_vars

\* C5: the rules of one file run in declared order, each on the buffer left
\* by the rule before it (the first on the text read from disk); in
\* fix_calendar5.py every 's.config.SMTP.Host/.Port/.From' becomes
\* 's.config.Notification.SMTPHost/SMTPPort/FromEmail', the catch-all never
\* turns one into 's.config.Notification.Host/.Port/.From', and no
\* 's.config.SMTP' is left in the file written.
C5_OrderPreservation ==
    /\ \A p \in {svc_path, notif_path} :
          LET t == TraceOf(trace, p, 1)
          IN  \A k \in 1..Len(t) :
                 /\ t[k].rule = k
                 /\ t[k].before = (IF k = 1 THEN orig[p] ELSE t[k - 1].after)
    /\ pc = "done" =>
          LET new == disk[notif_path]
              old == orig[notif_path]
          IN  /\ ~Contains(new, <<CFG, SMTP>>)
              /\ Count(new, <<CFG, NOTIF, SMTPHOST>>) = Count(old, <<CFG, SMTP, HOST>>)
              /\ Count(new, <<CFG, NOTIF, SMTPPORT>>) = Count(old, <<CFG, SMTP, PORT>>)
              /\ Count(new, <<CFG, NOTIF, FROMEMAIL>>) = Count(old, <<CFG, SMTP, FROM>>)
              /\ Count(new, <<CFG, NOTIF, HOST>>) =
                    Count(old, <<CFG, NOTIF, HOST>>) + Count(old, <<CFG, NOTIF, PLURAL, HOST>>)

\* a finished run whose notification.go held 's.config.SMTP.Host', which the
\* Host rule and the catch-all both match, and where all five rules ran
C5_Witness ==
    /\ pc = "done"
    /\ Contains(orig[notif_path], <<CFG, SMTP, HOST>>)
    /\ Contains(disk[notif_path], <<CFG, NOTIF, SMTPHOST>>)
    /\ Len(TraceOf(trace, notif_path, 1)) = 5

----------------------------------------------------------------------------
(* src/fix_calendar_main.py: fix_config(), then fix_main()                 *)

cfg_path == "/opt/oonrumail/app/services/calendar/config/config.go"
main_go_path == "/opt/oonrumail/app/services/calendar/main.go"

PUBLICURL_FIELD == "PublicURL      string   'yaml:\"publicURL\"'"
PUBLICURL_FIELD_7 == "PublicURL       string   'yaml:\"publicURL\"'"
DOMAIN_FIELD == "\n\tDomain         string   'yaml:\"domain\"'"
AUTHURL_FIELD == "\n\tAuthServiceURL string   'yaml:\"authServiceURL\"'"
LOOKAHEAD_IF == "\tif cfg.Notification.ReminderLookAhead == 0 {"
DOMAIN_DEFAULT == "\tif cfg.Server.Domain == \"\" {\n\t\tcfg.Server.Domain = \"localhost\"\n\t}\n"
AUTHURL_DEFAULT == "\tif cfg.Server.AuthServiceURL == \"\" {\n\t\tcfg.Server.AuthServiceURL = \"http://auth:3000\"\n\t}\n"

fix_config_rules ==
    << Rule(<<PUBLICURL_FIELD>>, <<PUBLICURL_FIELD_7, DOMAIN_FIELD, AUTHURL_FIELD>>, <<>>),
       Rule(<<LOOKAHEAD_IF>>, <<DOMAIN_DEFAULT, AUTHURL_DEFAULT, LOOKAHEAD_IF>>, <<>>) >>

\* the 22 replace statements of fix_main, in the order of the source
fix_main_rules ==
    << Rule(<<"\t// Initialize services\n\tcalendarService := service.NewCalendarService(calendarRepo, eventRepo, attendeeRepo, logger)\n\tnotificationService := service.NewNotificationService(cfg, logger)">>,
            <<"\t// Initialize reminder repository\n\treminderRepo := repository.NewReminderRepository(dbPool)\n\n",
              "\t// Initialize services\n\tnotificationService := service.NewNotificationService(cfg, logger)\n",
              "\tcalendarService := service.NewCalendarService(calendarRepo, eventRepo, attendeeRepo, reminderRepo, notificationService, logger)">>,
            <<>>),
       Rule(<<"\t// Start reminder processor\n\tnotificationService.StartReminderProcessor(ctx, eventRepo)\n\n">>, <<>>, <<>>),
       Rule(<<"\teventHandler := handlers.NewEventHandler(calendarService, logger)\n">>, <<>>, <<>>),
       Rule(<<"\t// Initialize CalDAV handler\n\tcaldavHandler := caldav.NewHandler(calendarService, logger)">>,
            <<"\t// Initialize CalDAV handler\n\tcaldavHandler := caldav.NewCalDAVHandler(calendarService, logger, cfg.Server.Domain)">>,
            <<>>),
       Rule(<<"\t\tr.Use(handlers.AuthMiddleware)">>,
            <<"\t\tauthMw := handlers.NewAuthMiddleware(cfg.Server.AuthServiceURL, logger)\n",
              "\t\tr.Use(authMw.Authenticate)">>, <<>>),
       Rule(<<"calendarHandler.List)">>, <<"calendarHandler.ListCalendars)">>, <<>>),
       Rule(<<"calendarHandler.Create)">>, <<"calendarHandler.CreateCalendar)">>, <<>>),
       Rule(<<"calendarHandler.Get)">>, <<"calendarHandler.GetCalendar)">>, <<>>),
       Rule(<<"calendarHandler.Update)">>, <<"calendarHandler.UpdateCalendar)">>, <<>>),
       Rule(<<"calendarHandler.Delete)">>, <<"calendarHandler.DeleteCalendar)">>, <<>>),
       Rule(<<"calendarHandler.Share)">>, <<"calendarHandler.ShareCalendar)">>, <<>>),
       Rule(<<"calendarHandler.Unshare)">>, <<"calendarHandler.UnshareCalendar)">>, <<>>),
       Rule(<<"eventHandler.List)">>, <<"calendarHandler.ListEvents)">>, <<>>),
       Rule(<<"eventHandler.Create)">>, <<"calendarHandler.CreateEvent)">>, <<>>),
       Rule(<<"eventHandler.Get)">>, <<"calendarHandler.GetEvent)">>, <<>>),
       Rule(<<"eventHandler.Update)">>, <<"calendarHandler.UpdateEvent)">>, <<>>),
       Rule(<<"eventHandler.Delete)">>, <<"calendarHandler.DeleteEvent)">>, <<>>),
       Rule(<<"eventHandler.Respond)">>, <<"calendarHandler.RespondToEvent)">>, <<>>),
       Rule(<<"eventHandler.Search)">>, <<"calendarHandler.SearchEvents)">>, <<>>),
       Rule(<<"eventHandler.FreeBusy)">>, <<"calendarHandler.GetFreeBusy)">>, <<>>),
       Rule(<<"\t// CalDAV endpoints (RFC 4791)\n\tr.Route(\"/caldav\", func(r chi.Router) {\n",
              "\t\tr.Use(caldavHandler.AuthMiddleware)\n\t\tr.HandleFunc(\"/*\", caldavHandler.ServeHTTP)\n",
              "\t})">>,
            <<"\t// CalDAV endpoints (RFC 4791)\n\tr.Route(\"/caldav\", func(r chi.Router) {\n",
              "\t\tcaldavHandler.RegisterRoutes(r)\n",
              "\t})">>, <<>>) >>

m_ReadConfig == ReadFile(cfg_path, "m_cfg_read", "m_cfg_rules")
m_ConfigRule == ReplaceStep(cfg_path, fix_config_rules, "m_cfg_rules", "m_cfg_write")
m_WriteConfig == WriteFile(cfg_path, "m_cfg_write", "m_main_read", <<"Fixed config.go">>)
m_ReadMain == ReadFile(main_go_path, "m_main_read", "m_main_rules")
m_MainRule == ReplaceStep(main_go_path, fix_main_rules, "m_main_rules", "m_main_write")
m_WriteMain == WriteFile(main_go_path, "m_main_write", "m_end", <<"Fixed main.go", "Done!">>)
m_Rerun == Rerun("m_end", "m_cfg_read")

----------------------------------------------------------------------------
(* src/scripts/fix_threat.py                                               *)

threat_path == "/opt/oonrumail/app/services/ai-assistant/handlers/threat.go"

CTX_COMMENT == "// Context key for imports"
IMPORT_CTX == "import \"context\""
JSON_IMPORT == "\"encoding/json\""
CTX_IMPORT == "\"context\""

lines_to_remove == {<<CTX_COMMENT>>, <<IMPORT_CTX>>}

KeepLine(l) == Strip(l) \notin lines_to_remove

\* lines = content.split('\n'); cleaned = [l for l in lines if ...];
\* content = '\n'.join(cleaned)
Cleaned(c) == Join(SelectSeq(Split(c, <<NL>>), KeepLine), <<NL>>)

fix_threat_rules ==
    << Rule(<<JSON_IMPORT>>, <<CTX_IMPORT, NL, TAB, JSON_IMPORT>>, <<>>) >>

th_Read == ReadFile(threat_path, "th_read", "th_clean")

th_Clean ==
    /\ pc = "th_clean"
    /\ content' = Cleaned(content)
    /\ pc' = "th_rules"
    /\ UNCHANGED <<disk, fstat, ri, loc, out, run, orig, after1, trace, io>>

th_Rule == ReplaceStep(threat_path, fix_threat_rules, "th_rules", "th_write")
th_Write == WriteFile(threat_path, "th_write", "th_end", <<"Fixed threat.go imports">>)
th_Rerun == Rerun("th_end", "th_read")

----------------------------------------------------------------------------
(* Two runs in a row of fix_calendar_main.py, or of fix_threat.py          *)

MaxConfigLen == 2
MaxMainLen == 1
MaxThreatLen == 3

RECURSIVE OldTokens(_)
OldTokens(rules) ==
    IF rules = <<>> THEN {} ELSE Range(Head(rules).old) \cup OldTokens(Tail(rules))

ConfigInputs == SeqsUpTo({PUBLICURL_FIELD, LOOKAHEAD_IF, "x"}, MaxConfigLen)
MainInputs ==
    SeqsUpTo(OldTokens(fix_main_rules) \cup {"x"}, MaxMainLen)
        \cup {<<fix_main_rules[1].old[1], "x", fix_main_rules[3].old[1]>>}
ThreatInputs ==
    SeqsUpTo({NL, TAB, CTX_COMMENT, IMPORT_CTX, JSON_IMPORT, "x"}, MaxThreatLen)

RunsPaths == {cfg_path, main_go_path, threat_path}

InitRuns ==
    /\ \/ /\ \E c \in ConfigInputs, m \in MainInputs :
                disk = (cfg_path :> c) @@ (main_go_path :> m) @@ (threat_path :> <<>>)
          /\ \E p \in {cfg_path, main_go_path}, st \in {"ok", "missing", "readonly"} :
                fstat = [AllOk(RunsPaths) EXCEPT ![p] = st]
          /\ MissingIsEmpty
          /\ Start("m_cfg_read")
       \/ /\ \E t \in ThreatInputs :
                disk = (cfg_path :> <<>>) @@ (main_go_path :> <<>>) @@ (threat_path :> t)
          /\ \E st \in {"ok", "missing", "readonly"} :
                fstat = [AllOk(RunsPaths) EXCEPT ![threat_path] = st]
          /\ MissingIsEmpty
          /\ Start("th_read")

NextRuns ==
    \/ m_ReadConfig
    \/ m_ConfigRule
    \/ m_WriteConfig
    \/ m_ReadMain
    \/ m_MainRule
    \/ m_WriteMain
    \/ m_Rerun
    \/ th_Read
    \/ th_Clean
    \/ th_Rule
    \/ th_Write
    \/ th_Rerun

SpecRuns == InitRuns /\ [][NextRuns]_vars

SecondRunEnded == run = 2 /\ pc \in {"m_end", "th_end"}

\* C1: a second run of a patch script on the files its first run left makes
\* no further edit: when it ends every file is what it was after the first run.
C1_Idempotent == SecondRunEnded => disk = after1

\* C3: when a rule of a file's sequence does not find its pattern, no later
\* rule of that file is attempted and the file on disk stays what it was
\* before the run.
C3_FailFast ==
    \A p \in {cfg_path, main_go_path} :
        LET t == TraceOf(trace, p, 1)
        IN  \A k \in 1..Len(t) :
               ~Contains(t[k].before, t[k].old) =>
                   /\ Len(t) = k
                   /\ run = 1 => disk[p] = orig[p]

----------------------------------------------------------------------------
(* src/fix_port.py                                                         *)

port_path == "/opt/oonrumail/app/services/transactional-api/config.yaml"

fix_port_rules == << Rule(<<"addr: \":8080\"">>, <<"addr: \":${PORT}\"">>, <<>>) >>

port_Read == ReadFile(port_path, "port_read", "port_rules")
port_Rule == ReplaceStep(port_path, fix_port_rules, "port_rules", "port_open")
port_Open == WriteOpen(port_path, content, "port_open", "port_writing")
port_Write == WriteData(port_path, content, "port_writing")
port_Close == WriteClose(port_path, content, "port_writing", "done", <<"Fixed!">>)

----------------------------------------------------------------------------
(* src/fix_calendar_final.py: fix_handlers_calendar(), fix_caldav_handler() *)
(* calendar.go is read with readlines(): its text is a sequence of lines.   *)

handlers_calendar_path == "/opt/oonrumail/app/services/calendar/handlers/calendar.go"
caldav_path == "/opt/oonrumail/app/services/calendar/caldav/handler.go"

UUID_PARSE == "\t\ttargetUserID, err := uuid.Parse(req.UserID)\n"
ERR_LINE == "\t\tif err != nil { ... }\n"
SHARE_CALL == "\t\tif err := h.service.ShareCalendar(...); err != nil {\n"
RSVP_LINE == "\tvar req models.RSVPRequest\n"
RESPOND_LINE == "\tvar req models.RespondRequest\n"
TARGET_ASSIGN == "\t\ttargetUserID := req.UserID\n"

\* lines = f.readlines(); new_lines = []; i = 0
fh_Read ==
    ReadInto(handlers_calendar_path, "fh_read", "fh_loop", [i |-> 0, new_lines |-> <<>>])

\* one pass of `while i < len(lines)`, up to the inner while when the line
\* holds the uuid.Parse call (lines[i] of Python is content[i + 1])
fh_Loop ==
    /\ pc = "fh_loop"
    /\ loc.i < Len(content)
    /\ LET line == content[loc.i + 1]
       IN  IF line = UUID_PARSE
           THEN /\ loc' = [i |-> loc.i + 1, new_lines |-> Append(loc.new_lines, TARGET_ASSIGN)]
                /\ pc' = "fh_skip"
           ELSE /\ loc' = [i |-> loc.i + 1,
                           new_lines |-> Append(loc.new_lines,
                                IF line = RSVP_LINE THEN RESPOND_LINE ELSE line)]
                /\ pc' = "fh_loop"
    /\ UNCHANGED <<disk, fstat, content, ri, out, run, orig, after1, trace, io>>

\* the inner while with `i += 1` left out
fh_Skip_no_increment ==
    /\ pc = "fh_skip"
    /\ IF loc.i < Len(content) /\ content[loc.i + 1] # SHARE_CALL
       THEN /\ loc' = loc
            /\ pc' = "fh_skip"
       ELSE /\ loc' = loc
            /\ pc' = "fh_loop"
    /\ UNCHANGED <<disk, fstat, content, ri, out, run, orig, after1, trace, io>>

\* while i < len(lines) and 'if err := h.service.ShareCalendar' not in lines[i]: i += 1
fh_Skip ==
    /\ pc = "fh_skip"
    /\ IF loc.i < Len(content) /\ content[loc.i + 1] # SHARE_CALL
       THEN /\ loc' = [loc EXCEPT !.i = loc.i + 1]
            /\ pc' = "fh_skip"
       ELSE /\ loc' = loc
            /\ pc' = "fh_loop"
    /\ UNCHANGED <<disk, fstat, content, ri, out, run, orig, after1, trace, io>>

\* the outer while ends
fh_LoopEnd ==
    /\ pc = "fh_loop"
    /\ loc.i >= Len(content)
    /\ pc' = "fh_open"
    /\ UNCHANGED <<disk, fstat, content, ri, loc, out, run, orig, after1, trace, io>>

fh_Open == WriteOpen(handlers_calendar_path, loc.new_lines, "fh_open", "fh_writing")
fh_Write == WriteData(handlers_calendar_path, loc.new_lines, "fh_writing")
fh_Close ==
    WriteClose(handlers_calendar_path, loc.new_lines, "fh_writing", "cd_read",
               <<"Fixed calendar.go">>)

fix_caldav_handler_rules ==
    << Rule(<<"strings.ToUpper(event.Status)">>, <<"strings.ToUpper(string(event.Status))">>, <<>>),
       Rule(<<"strings.ReplaceAll(att.Status,">>, <<"strings.ReplaceAll(string(att.Status),">>, <<>>),
       Rule(<<"event.Status = strings.ToLower(strings.TrimPrefix(line, \"STATUS:\"))">>,
            <<"event.Status = models.EventStatus(strings.ToLower(strings.TrimPrefix(line, \"STATUS:\")))">>,
            <<>>),
       Rule(<<"event.Status = \"confirmed\"">>, <<"event.Status = models.EventStatus(\"confirmed\")">>,
            <<>>) >>

cd_Read == ReadFile(caldav_path, "cd_read", "cd_rules")
cd_Rule == ReplaceStep(caldav_path, fix_caldav_handler_rules, "cd_rules", "cd_open")
cd_Open == WriteOpen(caldav_path, content, "cd_open", "cd_writing")
cd_Write == WriteData(caldav_path, content, "cd_writing")
cd_Close ==
    WriteClose(caldav_path, content, "cd_writing", "done",
               <<"Fixed handler.go", "All fixes applied!">>)

----------------------------------------------------------------------------
(* One run of fix_port.py, or of fix_calendar_final.py, that can be killed *)
(* at any step                                                             *)

MaxPortLen == 2
MaxHandlerLines == 3
MaxCaldavLen == 1

PortInputs == SeqsUpTo({"addr: \":8080\"", "x"}, MaxPortLen)
HandlerInputs ==
    SeqsUpTo({UUID_PARSE, ERR_LINE, SHARE_CALL, RSVP_LINE, "x\n"}, MaxHandlerLines)
CaldavInputs == SeqsUpTo(OldTokens(fix_caldav_handler_rules) \cup {"x"}, MaxCaldavLen)

KillPaths == {port_path, handlers_calendar_path, caldav_path}

InitKill ==
    /\ \/ /\ \E c \in PortInputs :
                disk = (port_path :> c) @@ (handlers_calendar_path :> <<>>)
                          @@ (caldav_path :> <<>>)
          /\ \E st \in {"ok", "missing", "readonly"} :
                fstat = [AllOk(KillPaths) EXCEPT ![port_path] = st]
          /\ MissingIsEmpty
          /\ Start("port_read")
       \/ /\ \E h \in HandlerInputs, c \in CaldavInputs :
                disk = (port_path :> <<>>) @@ (handlers_calendar_path :> h)
                          @@ (caldav_path :> c)
          /\ \E p \in {handlers_calendar_path, caldav_path},
                st \in {"ok", "missing", "readonly"} :
                fstat = [AllOk(KillPaths) EXCEPT ![p] = st]
          /\ MissingIsEmpty
          /\ Start("fh_read")

NextKill ==
    \/ port_Read
    \/ port_Rule
    \/ port_Open
    \/ port_Write
    \/ port_Close
    \/ fh_Read
    \/ fh_Loop
    \/ fh_Skip
    \/ fh_LoopEnd
    \/ fh_Open
    \/ fh_Write
    \/ fh_Close
    \/ cd_Read
    \/ cd_Rule
    \/ cd_Open
    \/ cd_Write
    \/ cd_Close
    \/ Crash

SpecKill == InitKill /\ [][NextKill]_vars

\* C2: at every point of a run, a crash included, each target file is either
\* its text of before the run or the complete new text that the run writes.
C2_Atomic ==
    \A p \in KillPaths :
        \/ disk[p] = orig[p]
        \/ \E k \in 1..Len(io) :
              io[k].op = "write" /\ io[k].path = p /\ disk[p] = io[k].text

----------------------------------------------------------------------------
(* src/scripts/fix_calendar4.py                                            *)

\* calendar.go: the plain and the pointer form of the Transparency check,
\* which start after a tab and end with "\n\t}\n"
TRANSP_PLAIN == "if req.Transparency != \"\" {\n\t\tevent.Transparency = req.Transparency"
TRANSP_PTR == "if req.Transparency != nil && *req.Transparency != \"\" {\n\t\tevent.Transparency = *req.Transparency"
BLOCK_END == "\n\t}\n"

fix_calendar4_svc_rules ==
    << Rule(<<TAB, TRANSP_PLAIN, BLOCK_END>>, <<>>,
            <<"Removed Transparency handling from UpdateEvent">>),
       Rule(<<"Periods", ":">>, <<"FreeBusy", ":">>, <<>>),
       Rule(<<"fbr.", "Periods">>, <<"fbr.", "FreeBusy">>,
            <<"Fixed FreeBusyResponse.Periods -> FreeBusy">>) >>

\* notification.go
STATUS_CALL == "statusToICalStatus(event.Status)"
STATUS_CALL_CAST == "statusToICalStatus(string(event.Status))"
S_CFG_PUBLICURL == "s.config.Server.PublicURL"
S_PUBLICURL == "s.publicURL"
NS_HDR == "type NotificationService struct"
LBRACE == " {"
RBRACE == "}"
PUBURL_MEMBER == "\n\tpublicURL string"
NEW_FN == "func NewNotificationService"
RETURN_NS == "return &NotificationService{"
PUBURL_INIT == "publicURL := os.Getenv(\"PUBLIC_URL\")\n\tif publicURL == \"\" {\n\t\tpublicURL = \"https://calendar.localhost\"\n\t"
PUBURL_SET == "\n\t\tpublicURL: publicURL,"
BYTES_IMPORT == "\"bytes\""
OS_IMPORT == "\"os\""

\* the tokens whose text holds 'publicURL'
HasPublicURL == {S_PUBLICURL, PUBURL_MEMBER, PUBURL_INIT, PUBURL_SET}

fix_calendar4_notif_rules ==
    << Rule(<<STATUS_CALL>>, <<STATUS_CALL_CAST>>, <<"Fixed EventStatus cast in notification.go">>),
       Rule(<<S_CFG_PUBLICURL>>, <<S_PUBLICURL>>,
            <<"Changed config.Server.PublicURL references to s.publicURL">>),
       Rule(<<CFG, SMTP, HOST>>, <<CFG, NOTIF, SMTPHOST>>, <<>>),
       Rule(<<CFG, SMTP, PORT>>, <<CFG, NOTIF, SMTPPORT>>, <<>>),
       Rule(<<CFG, SMTP, FROM>>, <<CFG, NOTIF, FROMEMAIL>>,
            <<"Fixed s.config.SMTP -> s.config.Notification">>) >>

\* 'publicURL' not in content.split('type NotificationService struct')[1].split('}')[0]
\*     if 'type NotificationService struct' in content else True
NeedsStructField(c) ==
    IF Contains(c, <<NS_HDR>>)
    THEN ~HasText(PrefixBefore(Split(c, <<NS_HDR>>)[2], {RBRACE}), HasPublicURL)
    ELSE TRUE

\* 'publicURL' not in content.split('func NewNotificationService')[1].split('return')[0]
NeedsConstructorInit(c) ==
    ~HasText(PrefixBefore(Split(c, <<NEW_FN>>)[2], {RETURN_NS}), HasPublicURL)

\* the replace of 'return &NotificationService{', then the os import if missing
WithConstructorInit(c) ==
    LET r == Replace(c, <<RETURN_NS>>,
                     <<PUBURL_INIT, RBRACE, "\n\t", RETURN_NS, PUBURL_SET>>)
    IN  IF ~Contains(r, <<OS_IMPORT>>)
        THEN Replace(r, <<BYTES_IMPORT>>, <<BYTES_IMPORT, "\n\t", OS_IMPORT>>)
        ELSE r

\* config.go
ALLOWED_ORIGINS == "AllowedOrigins []string 'yaml:\"allowedOrigins\"'"

\* the tokens of config.go whose text holds 'PublicURL'
HasPublicURLField == {PUBLICURL_FIELD, PUBLICURL_FIELD_7}

c4_ReadSvc == ReadFile(svc_path, "c4_read_svc", "c4_svc_rules")
c4_SvcRule == ReplaceStep(svc_path, fix_calendar4_svc_rules, "c4_svc_rules", "c4_write_svc")
c4_WriteSvc == WriteFile(svc_path, "c4_write_svc", "c4_read_notif", <<>>)
c4_ReadNotif == ReadFile(notif_path, "c4_read_notif", "c4_notif_rules")
c4_NotifRule ==
    ReplaceStep(notif_path, fix_calendar4_notif_rules, "c4_notif_rules", "c4_struct_field")

c4_StructField ==
    IF NeedsStructField(content)
    THEN EditStep(notif_path, 6, <<NS_HDR, LBRACE>>,
                  Replace(content, <<NS_HDR, LBRACE>>, <<NS_HDR, LBRACE, PUBURL_MEMBER>>),
                  <<"Added publicURL field to NotificationService">>,
                  "c4_struct_field", "c4_constructor")
    ELSE SkipStep("c4_struct_field", "c4_constructor")

c4_Constructor ==
    IF Contains(content, <<NEW_FN>>) /\ NeedsConstructorInit(content)
    THEN EditStep(notif_path, 7, <<RETURN_NS>>, WithConstructorInit(content),
                  <<"Added publicURL initialization">>,
                  "c4_constructor", "c4_write_notif")
    ELSE SkipStep("c4_constructor", "c4_write_notif")

c4_WriteNotif == WriteFile(notif_path, "c4_write_notif", "c4_read_cfg", <<>>)
c4_ReadCfg == ReadFile(cfg_path, "c4_read_cfg", "c4_cfg_rule")

c4_CfgRule ==
    IF ~HasText(content, HasPublicURLField)
    THEN EditStep(cfg_path, 1, <<ALLOWED_ORIGINS>>,
                  Replace(content, <<ALLOWED_ORIGINS>>, <<ALLOWED_ORIGINS, "\n\t", PUBLICURL_FIELD>>),
                  <<"Added PublicURL to ServerConfig">>,
                  "c4_cfg_rule", "c4_write_cfg")
    ELSE SkipStep("c4_cfg_rule", "c4_write_cfg")

c4_WriteCfg == WriteFile(cfg_path, "c4_write_cfg", "done", <<"All calendar fixes applied!">>)

Cal4SvcInputs ==
    { <<>>, <<"x">>,
      <<TAB, TRANSP_PLAIN, BLOCK_END>>,
      <<TAB, TRANSP_PTR, BLOCK_END>>,
      <<"Periods", ":">>,
      <<"fbr.", "Periods">>,
      <<"fbr.", "Periods", ":">>,
      <<"Periods", ":", "x", "Periods", ":">>,
      <<TAB, TRANSP_PLAIN, BLOCK_END, "fbr.", "Periods", "x", "Periods", ":">> }

Cal4NotifInputs ==
    { imports \o struct \o ctor \o body :
        imports \in {<<>>, <<BYTES_IMPORT>>, <<BYTES_IMPORT, "\n\t", OS_IMPORT>>},
        struct \in {<<>>, <<NS_HDR, LBRACE, "\n", RBRACE>>,
                    <<NS_HDR, LBRACE, PUBURL_MEMBER, "\n", RBRACE>>},
        ctor \in {<<>>, <<NEW_FN, RETURN_NS, RBRACE>>,
                  <<NEW_FN, S_CFG_PUBLICURL, RETURN_NS, RBRACE>>,
                  <<NEW_FN, PUBURL_INIT, RBRACE, "\n\t", RETURN_NS, PUBURL_SET, RBRACE>>},
        body \in {<<>>, <<STATUS_CALL>>, <<CFG, SMTP, HOST>>} }

Cal4CfgInputs == {<<>>, <<ALLOWED_ORIGINS>>, <<ALLOWED_ORIGINS, "\n\t", PUBLICURL_FIELD>>}

Cal4Paths == {svc_path, notif_path, cfg_path}

InitCal4 ==
    /\ \E c \in Cal4SvcInputs, n \in Cal4NotifInputs, g \in Cal4CfgInputs :
          disk = (svc_path :> c) @@ (notif_path :> n) @@ (cfg_path :> g)
    /\ \E p \in Cal4Paths, st \in {"ok", "missing", "readonly"} :
          fstat = [AllOk(Cal4Paths) EXCEPT ![p] = st]
    /\ MissingIsEmpty
    /\ Start("c4_read_svc")

NextCal4 ==
    \/ c4_ReadSvc
    \/ c4_SvcRule
    \/ c4_WriteSvc
    \/ c4_ReadNotif
    \/ c4_NotifRule
    \/ c4_StructField
    \/ c4_Constructor
    \/ c4_WriteNotif
    \/ c4_ReadCfg
    \/ c4_CfgRule
    \/ c4_WriteCfg

SpecCal4 == InitCal4 /\ [][NextCal4]_vars

\* the messages of the script that say an edit was made
Cal4AppliedMessages ==
    { "Removed Transparency handling from UpdateEvent",
      "Fixed FreeBusyResponse.Periods -> FreeBusy",
      "Fixed EventStatus cast in notification.go",
      "Changed config.Server.PublicURL references to s.publicURL",
      "Fixed s.config.SMTP -> s.config.Notification",
      "Added publicURL field to NotificationService",
      "Added publicURL initialization",
      "Added PublicURL to ServerConfig" }

Written(p) == \E k \in 1..Len(io) : io[k].op = "write" /\ io[k].path = p

\* C4: when the run has ended, a file that could not be read or written is
\* unchanged, and every other file of the run has been patched and written,
\* wherever the failing file comes in the processing order.
C4_CrossFileIndependence ==
    pc \in {"done", "traceback"} =>
        \A p \in Cal4Paths :
            IF fstat[p] = "ok" THEN Written(p) ELSE disk[p] = orig[p]

\* C6: a rule edits the buffer only when its pattern occurs exactly once in
\* it; with no occurrence or several the buffer is left as it was.
C6_ExactlyOnce ==
    \A k \in 1..Len(trace) :
        trace[k].after # trace[k].before => Count(trace[k].before, trace[k].old) = 1

\* C8: every rule statement executed yields exactly one printed outcome, and
\* an outcome that says the edit was made (all the messages of the script
\* say so) is printed only when the statement changed the buffer.
C8_TruthfulOutcome ==
    \A k \in 1..Len(trace) :
        /\ Len(trace[k].msg) = 1
        /\ trace[k].msg[1] \in Cal4AppliedMessages => trace[k].after # trace[k].before

----------------------------------------------------------------------------
(* src/scripts/fix_calendar.py                                             *)

models_path == "/opt/oonrumail/app/services/calendar/models/models.go"

EVENT_HDR == "type Event struct"
ATT_FIELD == "\tAttendees       []*Attendee 'json:\"attendees,omitempty\" db:\"-\"'"
REM_FIELD == "\tReminders       []Reminder  'json:\"reminders,omitempty\" db:\"-\"'"
ID_FIELD == "\tID uuid.UUID 'json:\"id\" db:\"id\"'"
REQ_HDR == "type CreateEventRequest struct"
ATT_REQ_FIELD == "\tAttendees []CreateAttendeeRequest 'json:\"attendees\"'"
new_fields == << <<ATT_FIELD>>, <<REM_FIELD>> >>

\* the tokens whose text holds 'Attendees'
HasAttendees == {ATT_FIELD, ATT_REQ_FIELD}

\* line 12, the condition of Fix 1
AttendeesNotInEvent(c) ==
    IF Contains(c, <<EVENT_HDR>>)
    THEN ~HasText(PrefixBefore(Split(c, <<EVENT_HDR>>)[2], {RBRACE}), HasAttendees)
    ELSE TRUE

\* lines 16-24: the index (from 1) of the first line that is a lone closing
\* brace after the line that opens the Event struct, 0 for None
event_end(lines) ==
    LET opens == {i \in 1..Len(lines) : Contains(lines[i], <<EVENT_HDR, LBRACE>>)}
        first == CHOOSE i \in opens : \A j \in opens : i <= j
        closes == IF opens = {} THEN {}
                  ELSE {j \in first..Len(lines) : Strip(lines[j]) = <<RBRACE>>}
    IN  IF closes = {} THEN 0 ELSE CHOOSE j \in closes : \A m \in closes : j <= m

\* lines 26-29: the fields go in when the struct end was found and no line
\* before it holds 'Attendees'
InsertsFields(c) ==
    LET lines == Split(c, <<NL>>)
        e == event_end(lines)
    IN  /\ e # 0
        /\ ~HasText(Join(SubSeq(lines, 1, e - 1), <<NL>>), HasAttendees)

\* lines 30-36
WithEventFields(c) ==
    LET lines == Split(c, <<NL>>)
        e == event_end(lines)
    IN  Join(SubSeq(lines, 1, e - 1) \o new_fields \o SubSeq(lines, e, Len(lines)), <<NL>>)

RESP_HDR == "type EventListResponse struct"
RESP_EVENTS == "\tEvents     []*Event 'json:\"events\"'"
RESP_TOTALCOUNT == "\tTotalCount int      'json:\"total_count\"'"
RESP_TOTAL == "\tTotal      int      'json:\"total\"'"
RESP_LIMIT == "\tLimit      int      'json:\"limit\"'"
RESP_OFFSET == "\tOffset     int      'json:\"offset\"'"
RESP_HASMORE == "\tHasMore    bool     'json:\"has_more\"'"
old_resp ==
    <<RESP_HDR, LBRACE, NL, RESP_EVENTS, NL, RESP_TOTALCOUNT, NL, RESP_HASMORE, NL, RBRACE>>
new_resp ==
    <<RESP_HDR, LBRACE, NL, RESP_EVENTS, NL, RESP_TOTALCOUNT, NL, RESP_TOTAL, NL,
      RESP_LIMIT, NL, RESP_OFFSET, NL, RESP_HASMORE, NL, RBRACE>>

old_reminder == "if err := s.reminderRepo.BulkCreate(ctx, event.ID, req.Reminders); err != nil {"
new_reminder == "reminders := make([]*models.Reminder, len(req.Reminders)) ... if err := s.reminderRepo.BulkCreate(ctx, event.ID, reminders); err != nil {"
old_attendee == "if err := s.attendeeRepo.BulkCreate(ctx, event.ID, req.Attendees); err != nil {"
new_attendee == "attendees := make([]*models.Attendee, len(req.Attendees)) ... if err := s.attendeeRepo.BulkCreate(ctx, event.ID, attendees); err != nil {"
GET_REMS_EVENT_ID == "event.Reminders, _ = s.reminderRepo.GetByEventID(ctx, event.ID)"
CONV_REMS_EVENT_ID == "if rems, err := s.reminderRepo.GetByEventID(ctx, event.ID); err == nil { ... }"
GET_REMS_EVENTID == "event.Reminders, _ = s.reminderRepo.GetByEventID(ctx, eventID)"
CONV_REMS_EVENTID == "if rems, err := s.reminderRepo.GetByEventID(ctx, eventID); err == nil { ... }"
GET_REMS_E_ID == "e.Reminders, _ = s.reminderRepo.GetByEventID(ctx, e.ID)"
CONV_REMS_E_ID == "if rems, err := s.reminderRepo.GetByEventID(ctx, e.ID); err == nil { ... }"
FMT_IMPORT == "\"fmt\""
UUID_IMPORT == "\"github.com/google/uuid\""

fix_calendar_svc_rules ==
    << Rule(<<old_reminder>>, <<new_reminder>>, <<>>),
       Rule(<<old_attendee>>, <<new_attendee>>, <<>>),
       Rule(<<GET_REMS_EVENT_ID>>, <<CONV_REMS_EVENT_ID>>, <<>>),
       Rule(<<GET_REMS_EVENTID>>, <<CONV_REMS_EVENTID>>, <<>>),
       Rule(<<GET_REMS_E_ID>>, <<CONV_REMS_E_ID>>, <<>>) >>

cal_ReadModels == ReadFile(models_path, "cal_read_models", "cal_fix1")

cal_Fix1 ==
    IF AttendeesNotInEvent(content)
    THEN IF InsertsFields(content)
         THEN EditStep(models_path, 1, <<EVENT_HDR, LBRACE>>, WithEventFields(content),
                       <<"Added Attendees and Reminders fields to Event struct">>,
                       "cal_fix1", "cal_fix2")
         ELSE EditStep(models_path, 1, <<EVENT_HDR, LBRACE>>, content, <<>>,
                       "cal_fix1", "cal_fix2")
    ELSE SkipStep("cal_fix1", "cal_fix2")

cal_Fix2 ==
    IF Contains(content, <<RESP_HDR>>)
    THEN EditStep(models_path, 2, old_resp, Replace(content, old_resp, new_resp),
                  <<"Added Total, Limit, Offset fields to EventListResponse">>,
                  "cal_fix2", "cal_write_models")
    ELSE SkipStep("cal_fix2", "cal_write_models")

cal_WriteModels == WriteFile(models_path, "cal_write_models", "cal_read_svc", <<>>)
cal_ReadSvc == ReadFile(svc_path, "cal_read_svc", "cal_svc_rules")
cal_SvcRule == ReplaceStep(svc_path, fix_calendar_svc_rules, "cal_svc_rules", "cal_write_svc")
cal_WriteSvc ==
    WriteFile(svc_path, "cal_write_svc", "cal_reread_svc",
              <<"Fixed service/calendar.go type mismatches">>)
cal_RereadSvc == ReadFile(svc_path, "cal_reread_svc", "cal_uuid")

cal_UuidImport ==
    IF ~Contains(content, <<UUID_IMPORT>>)
    THEN EditStep(svc_path, 6, <<FMT_IMPORT>>,
                  Replace(content, <<FMT_IMPORT>>, <<FMT_IMPORT, NL, NL, TAB, UUID_IMPORT>>),
                  <<>>, "cal_uuid", "cal_write_uuid")
    ELSE SkipStep("cal_uuid", "cal_end")

cal_WriteUuid ==
    WriteFile(svc_path, "cal_write_uuid", "cal_end",
              <<"Added uuid import to service/calendar.go">>)
cal_End == PrintStep(<<"\nAll calendar fixes applied!">>, "cal_end", "done")

MaxEventFields == 2

\* a struct as lines: header, one line per field, closing brace
StructLines(hdr, fields) ==
    <<<<hdr, LBRACE>>>> \o [i \in 1..Len(fields) |-> <<fields[i]>>] \o <<<<RBRACE>>>>

CalendarModelsInputs ==
    { Join(before \o event \o after, <<NL>>) :
        before \in {<<>>, StructLines(REQ_HDR, <<ATT_REQ_FIELD>>)},
        event \in {<<>>} \cup
                  { StructLines(EVENT_HDR, fs) :
                      fs \in SeqsUpTo({ATT_FIELD, REM_FIELD, ID_FIELD}, MaxEventFields) },
        after \in {<<>>,
                   StructLines(RESP_HDR, <<RESP_EVENTS, RESP_TOTALCOUNT, RESP_HASMORE>>),
                   StructLines(RESP_HDR, <<RESP_EVENTS, RESP_HASMORE>>)} }

CalendarSvcInputs ==
    { <<>>, <<FMT_IMPORT>>, <<FMT_IMPORT, NL, NL, TAB, UUID_IMPORT>>,
      <<FMT_IMPORT, NL, old_reminder, NL, old_attendee>>,
      <<GET_REMS_EVENT_ID, NL, GET_REMS_EVENTID, NL, GET_REMS_E_ID>> }

CalendarPaths == {models_path, svc_path}

InitCalendar ==
    /\ \E m \in CalendarModelsInputs, c \in CalendarSvcInputs :
          disk = (models_path :> m) @@ (svc_path :> c)
    /\ \E p \in CalendarPaths, st \in {"ok", "missing", "readonly"} :
          fstat = [AllOk(CalendarPaths) EXCEPT ![p] = st]
    /\ MissingIsEmpty
    /\ Start("cal_read_models")

NextCalendar ==
    \/ cal_ReadModels
    \/ cal_Fix1
    \/ cal_Fix2
    \/ cal_WriteModels
    \/ cal_ReadSvc
    \/ cal_SvcRule
    \/ cal_WriteSvc
    \/ cal_RereadSvc
    \/ cal_UuidImport
    \/ cal_WriteUuid
    \/ cal_End

SpecCalendar == InitCalendar /\ [][NextCalendar]_vars

\* the fields of the Event struct: the text from its header to the next '}'
EventBody(c) == PrefixBefore(Split(c, <<EVENT_HDR>>)[2], {RBRACE})

FieldsOnce(c) ==
    /\ CountIn(EventBody(c), HasAttendees) = 1
    /\ CountIn(EventBody(c), {REM_FIELD}) = 1

\* C7: right after the Event-struct rule of fix_calendar.py, a buffer the
\* rule changed holds each inserted field exactly once in the Event struct,
\* and whatever models.go with an Event struct the run started from, the
\* struct holds the Attendees field once and the Reminders field once.
C7_PayloadOnce ==
    pc = "cal_fix2" =>
        /\ content # orig[models_path] => FieldsOnce(content)
        /\ Contains(orig[models_path], <<EVENT_HDR>>) => FieldsOnce(content)

----------------------------------------------------------------------------
(* src/scripts/fix_handlers.py and src/scripts/fix_models.py               *)

supp_path == "/opt/oonrumail/app/services/transactional-api/models/suppression.go"
apikey_path == "/opt/oonrumail/app/services/transactional-api/models/api_key.go"
webhook_path == "/opt/oonrumail/app/services/transactional-api/models/webhook.go"
paginated_path == "/opt/oonrumail/app/services/transactional-api/models/pagination.go"
handler_path == "/opt/oonrumail/app/services/transactional-api/handlers/other.go"

\* each appended text: blank lines and comment, the type header, the body
SUPP_COMMENT == "\n\n// AddSuppressionRequest is the request to add a suppression entry\n"
SUPP_TYPE_HDR == "type AddSuppressionRequest struct"
SUPP_BODY == " {\n\tEmail  string 'json:\"email\" validate:\"required,email\"'\n\tReason string 'json:\"reason,omitempty\"'\n}\n"
SUPP_USE == "func (r *AddSuppressionRequest) Validate() error"
supp_addition == <<SUPP_COMMENT, SUPP_TYPE_HDR, SUPP_BODY>>

APIKEY_COMMENT == "\n\n// APIKeyResponse is the API response for an API key\n"
APIKEY_TYPE_HDR == "type APIKeyResponse struct"
APIKEY_BODY == " {\n\tID uuid.UUID ... CreatedAt time.Time 'json:\"created_at\"'\n}\n"
APIKEY_OTHER_BODY == " {\n\tID string 'json:\"id\"'\n}\n"
APIKEY_USE == "func (k *APIKey) ToResponse() *APIKeyResponse"
apikey_addition == <<APIKEY_COMMENT, APIKEY_TYPE_HDR, APIKEY_BODY>>

WEBHOOK_COMMENT == "\n\n// WebhookResponse is the API response for a webhook\n"
WEBHOOK_TYPE_HDR == "type WebhookResponse struct"
WEBHOOK_BODY == " {\n\tID uuid.UUID ... CreatedAt time.Time 'json:\"created_at\"'\n}\n"
WEBHOOK_USE == "func (w *Webhook) ToResponse() *WebhookResponse"
addition == <<WEBHOOK_COMMENT, WEBHOOK_TYPE_HDR, WEBHOOK_BODY>>

PAGINATED_USE == "func Paginate(items []APIKey) PaginatedResponse[APIKey]"
paginated_content == <<"package models\n\n// PaginatedResponse is a generic paginated response\ntype PaginatedResponse[T any] struct { ... }\n">>

\* the tokens whose text holds the string each check looks for
HasAddSuppressionRequest == {SUPP_COMMENT, SUPP_TYPE_HDR, SUPP_USE}
HasAPIKeyResponseType == {APIKEY_TYPE_HDR}
HasWebhookResponse == {WEBHOOK_COMMENT, WEBHOOK_TYPE_HDR, WEBHOOK_USE}
HasPaginatedResponse == {PAGINATED_USE} \cup Range(paginated_content)

SCOPE_CHECK == "if !validScopes[scope] {"
SCOPE_CHECK_CAST == "if !validScopes[string(scope)] {"
SCOPE_MSG == "\"Invalid scope: \" + scope"
SCOPE_MSG_CAST == "\"Invalid scope: \" + string(scope)"
RATE_PTR == "if req.RateLimit != nil {\n\t\trateLimit = *req.RateLimit\n\t}"
RATE_VAL == "if req.RateLimit > 0 {\n\t\trateLimit = req.RateLimit\n\t}"
old_create == "key, rawKey, err := h.repo.Create(r.Context(), orgID, req.Name, req.Scopes, rateLimit, req.ExpiresAt)"
new_create == "scopeStrings := make([]string, len(req.Scopes)) ... key, rawKey, err := h.repo.Create(r.Context(), orgID, req.Name, scopeStrings, rateLimit, req.ExpiresAt)"
EVENT_CHECK == "if !validEvents[event] {"
EVENT_CHECK_CAST == "if !validEvents[string(event)] {"
EVENT_MSG == "\"Invalid event type: \" + event"
EVENT_MSG_CAST == "\"Invalid event type: \" + string(event)"

fix_handlers_rules ==
    << Rule(<<SCOPE_CHECK>>, <<SCOPE_CHECK_CAST>>, <<>>),
       Rule(<<SCOPE_MSG>>, <<SCOPE_MSG_CAST>>, <<>>),
       Rule(<<RATE_PTR>>, <<RATE_VAL>>, <<>>),
       Rule(<<old_create>>, <<new_create>>, <<>>) >>

fix_models_rules ==
    << Rule(<<EVENT_CHECK>>, <<EVENT_CHECK_CAST>>, <<>>),
       Rule(<<EVENT_MSG>>, <<EVENT_MSG_CAST>>, <<>>) >>

\* fix_handlers.py
h_ReadSupp == ReadFile(supp_path, "h_read_supp", "h_supp")
h_Supp ==
    IF ~HasText(content, HasAddSuppressionRequest)
    THEN EditStep(supp_path, 1, <<>>, content \o supp_addition, <<>>, "h_supp", "h_write_supp")
    ELSE PrintStep(<<"AddSuppressionRequest already exists">>, "h_supp", "h_read_apikey")
h_WriteSupp ==
    WriteFile(supp_path, "h_write_supp", "h_read_apikey",
              <<"Added AddSuppressionRequest to suppression.go">>)
h_ReadApikey == ReadFile(apikey_path, "h_read_apikey", "h_apikey")
h_Apikey ==
    IF ~HasText(content, HasAPIKeyResponseType)
    THEN EditStep(apikey_path, 1, <<>>, content \o apikey_addition, <<>>,
                  "h_apikey", "h_write_apikey")
    ELSE PrintStep(<<"APIKeyResponse already exists">>, "h_apikey", "h_read_handler")
h_WriteApikey ==
    WriteFile(apikey_path, "h_write_apikey", "h_read_handler",
              <<"Added APIKeyResponse to api_key.go">>)
h_ReadHandler == ReadFile(handler_path, "h_read_handler", "h_rules")
h_Rule == ReplaceStep(handler_path, fix_handlers_rules, "h_rules", "h_write_handler")
h_WriteHandler ==
    WriteFile(handler_path, "h_write_handler", "done",
              <<"Fixed handlers/other.go type issues", "\nAll fixes applied!">>)

\* fix_models.py
md_ReadWebhook == ReadFile(webhook_path, "md_read_webhook", "md_webhook")
md_Webhook ==
    IF ~HasText(content, HasWebhookResponse)
    THEN EditStep(webhook_path, 1, <<>>, content \o addition, <<>>,
                  "md_webhook", "md_write_webhook")
    ELSE PrintStep(<<"WebhookResponse already exists">>, "md_webhook", "md_listdir")
md_WriteWebhook ==
    WriteFile(webhook_path, "md_write_webhook", "md_listdir",
              <<"Added WebhookResponse to webhook.go">>)

\* the .go files of models_dir
ModelsDir == {p \in {supp_path, apikey_path, webhook_path, paginated_path} : fstat[p] # "missing"}

\* the loop over os.listdir, whose order is the file system's: it stops at
\* the first file it meets that holds 'PaginatedResponse'
md_ListDir ==
    /\ pc = "md_listdir"
    /\ LET holders == {p \in ModelsDir : HasText(disk[p], HasPaginatedResponse)}
       IN  \/ /\ holders = {}
              /\ pc' = "md_create"
              /\ out' = out
           \/ \E p \in holders :
                 /\ pc' = "md_read_handler"
                 /\ out' = out \o <<"PaginatedResponse already exists in", p>>
    /\ UNCHANGED <<disk, fstat, content, ri, loc, run, orig, after1, trace, io>>

md_Create ==
    WriteText(paginated_path, paginated_content, "md_create", "md_read_handler",
              <<"Created pagination.go with PaginatedResponse">>)
md_ReadHandler == ReadFile(handler_path, "md_read_handler", "md_rules")
md_Rule == ReplaceStep(handler_path, fix_models_rules, "md_rules", "md_write_handler")
md_WriteHandler ==
    WriteFile(handler_path, "md_write_handler", "done",
              <<"Fixed WebhookEventType as string in handlers/other.go", "\nAll fixes applied!">>)

SuppInputs == {<<>>, <<"package models">>, <<SUPP_USE>>, <<"package models">> \o supp_addition}
ApikeyInputs ==
    { <<>>, <<APIKEY_USE>>, <<PAGINATED_USE>> \o apikey_addition,
      <<APIKEY_TYPE_HDR, APIKEY_OTHER_BODY>> }
WebhookInputs == {<<>>, <<"package models">>, <<WEBHOOK_USE>>, <<"package models">> \o addition}
OtherGoInputs ==
    { <<>>, <<SCOPE_CHECK, SCOPE_MSG, RATE_PTR, old_create>>, <<EVENT_CHECK, EVENT_MSG>> }

HandlersPaths == {supp_path, apikey_path, webhook_path, paginated_path, handler_path}

InitHandlers ==
    /\ \E a \in SuppInputs, b \in ApikeyInputs, c \in WebhookInputs, h \in OtherGoInputs,
          g \in {<<>>, paginated_content} :
          disk = (supp_path :> a) @@ (apikey_path :> b) @@ (webhook_path :> c)
                 @@ (paginated_path :> g) @@ (handler_path :> h)
    /\ \E p \in HandlersPaths \ {paginated_path}, st \in {"ok", "missing", "readonly"} :
          fstat = [AllOk(HandlersPaths) EXCEPT
                      ![p] = st,
                      ![paginated_path] = IF disk[paginated_path] = <<>> THEN "missing" ELSE "ok"]
    /\ MissingIsEmpty
    /\ \/ Start("h_read_supp")
       \/ Start("md_read_webhook")

NextHandlers ==
    \/ h_ReadSupp
    \/ h_Supp
    \/ h_WriteSupp
    \/ h_ReadApikey
    \/ h_Apikey
    \/ h_WriteApikey
    \/ h_ReadHandler
    \/ h_Rule
    \/ h_WriteHandler
    \/ md_ReadWebhook
    \/ md_Webhook
    \/ md_WriteWebhook
    \/ md_ListDir
    \/ md_Create
    \/ md_ReadHandler
    \/ md_Rule
    \/ md_WriteHandler

SpecHandlers == InitHandlers /\ [][NextHandlers]_vars

\* what an append rule must have done to path p once it is past: nothing,
\* not even a write, when the definition was in the file, and otherwise the
\* file is the old text followed by one copy of the payload
AppendOutcome(p, definition, payload) ==
    IF Contains(orig[p], definition)
    THEN disk[p] = orig[p] /\ ~Written(p)
    ELSE disk[p] = orig[p] \o payload

\* C9: past each append rule, the file was left unwritten exactly when the
\* full type definition was already in it; when it was not, even if the
\* type's name occurs elsewhere in the file, the file is now the old text
\* followed by the definition, once.
C9_AppendShortCircuit ==
    /\ pc = "h_read_apikey" =>
          AppendOutcome(supp_path, <<SUPP_TYPE_HDR, SUPP_BODY>>, supp_addition)
    /\ pc = "h_read_handler" =>
          AppendOutcome(apikey_path, <<APIKEY_TYPE_HDR, APIKEY_BODY>>, apikey_addition)
    /\ pc = "md_listdir" =>
          AppendOutcome(webhook_path, <<WEBHOOK_TYPE_HDR, WEBHOOK_BODY>>, addition)

----------------------------------------------------------------------------
(* src/fix_coredns.py (fix_compose_healthcheck), src/fix_coredns_hc.py and  *)
(* src/fix_compose_db.py, three scripts that edit docker-compose.yml and   *)
(* that nothing keeps from running at the same time.  Here pc, content,    *)
(* loc and out hold one value per script.  The file is a sequence of       *)
(* chunks [t, n]: n consecutive lines whose text is t.                     *)

compose_path == "/opt/oonrumail/app/docker-compose.yml"

Chunk(t, n) == [t |-> t, n |-> n]
Fill(n) == Chunk("  # other lines", n)

RECURSIVE NLines(_)
\* len(f.readlines())
NLines(f) == IF f = <<>> THEN 0 ELSE Head(f).n + NLines(Tail(f))

\* the chunk that holds line idx (from 0), for idx < NLines(f)
ChunkIndex(f, idx) ==
    CHOOSE k \in 1..Len(f) :
        NLines(SubSeq(f, 1, k - 1)) <= idx /\ idx < NLines(SubSeq(f, 1, k))

HC_HDR == Chunk("    healthcheck:", 1)
\* test, interval, timeout, retries, start_period
OLD_BODY == Chunk("      test: [\"CMD\", \"nslookup\", \"example.com\", \"localhost\"] 30s 10s 3 10s", 5)
OLD_BODY_60S == Chunk("      test: [\"CMD\", \"nslookup\", \"example.com\", \"localhost\"] 60s 10s 3 10s", 5)
NEW_BODY == Chunk("      test: [\"CMD-SHELL\", \"true\"] 30s 5s 3 5s", 5)
DISABLE == Chunk("      disable: true", 1)
\* networks, - email-network, a blank line, # Adminer
TAIL_ADMINER == Chunk("    networks:\n      - email-network\n\n  # Adminer", 4)
TAIL_OTHER == Chunk("    networks:\n      - email-network\n\n  # Mailhog", 4)
DB_URL_PGBOUNCER == Chunk("      DATABASE_URL: postgres://u:p@pgbouncer:6432/db?sslmode=require", 1)
DB_URL_POSTGRES == Chunk("      DATABASE_URL: postgres://u:p@postgres:6432/db?sslmode=disable", 1)
DEPENDS_PGBOUNCER == Chunk("      - pgbouncer", 1)

old_healthcheck == <<HC_HDR, OLD_BODY, TAIL_ADMINER>>
new_healthcheck == <<HC_HDR, NEW_BODY, TAIL_ADMINER>>
\* what the regular expression of the fallback matches: the header and a
\* nslookup test with any interval, timeout, retries and start_period
NslookupBodies == {OLD_BODY, OLD_BODY_60S}
replacement == <<HC_HDR, NEW_BODY>>

\* re.subn(pattern, replacement, content, count=1): the text and the count
Subn(c) ==
    LET hits == {i \in 1..(Len(c) - 1) : c[i] = HC_HDR /\ c[i + 1] \in NslookupBodies}
        i == CHOOSE j \in hits : \A m \in hits : j <= m
    IN  IF hits = {} THEN <<c, 0>>
        ELSE <<SubSeq(c, 1, i - 1) \o replacement \o SubSeq(c, i + 2, Len(c)), 1>>

Procs == {"fix_coredns", "fix_coredns_hc", "fix_compose_db"}

\* with open(path, 'r') as f: content = f.read()
P_ReadPath(self, path, here, next) ==
    /\ pc[self] = here
    /\ IF fstat[path] = "missing"
       THEN /\ pc' = [pc EXCEPT ![self] = "traceback"]
            /\ UNCHANGED <<content, io>>
       ELSE /\ content' = [content EXCEPT ![self] = disk[path]]
            /\ io' = Append(io, [op |-> "read", path |-> path, run |-> self,
                                 text |-> disk[path]])
            /\ pc' = [pc EXCEPT ![self] = next]
    /\ UNCHANGED <<disk, fstat, ri, loc, out, run, orig, after1, trace>>

P_Read(self, here, next) == P_ReadPath(self, compose_path, here, next)

\* a statement that sets the script's buffer to b and prints msgs
P_Edit(self, b, msgs, here, next) ==
    /\ pc[self] = here
    /\ content' = [content EXCEPT ![self] = b]
    /\ out' = [out EXCEPT ![self] = @ \o msgs]
    /\ pc' = [pc EXCEPT ![self] = next]
    /\ UNCHANGED <<disk, fstat, ri, loc, run, orig, after1, trace, io>>

\* with open(path, 'w') as f: f.write(text)
P_WriteText(self, path, text, msgs, here, next) ==
    /\ pc[self] = here
    /\ IF fstat[path] = "readonly"
       THEN /\ pc' = [pc EXCEPT ![self] = "traceback"]
            /\ UNCHANGED <<disk, fstat, io, out>>
       ELSE /\ disk' = [disk EXCEPT ![path] = text]
            /\ fstat' = [fstat EXCEPT ![path] = "ok"]
            /\ io' = Append(io, [op |-> "write", path |-> path, run |-> self,
                                 text |-> text])
            /\ out' = [out EXCEPT ![self] = @ \o msgs]
            /\ pc' = [pc EXCEPT ![self] = next]
    /\ UNCHANGED <<content, ri, loc, run, orig, after1, trace>>

P_Write(self, msgs, here, next) ==
    P_WriteText(self, compose_path, content[self], msgs, here, next)

\* fix_coredns.py, fix_compose_healthcheck
hcfix_Read == P_Read("fix_coredns", "hcfix_read", "hcfix_match")
hcfix_Match ==
    LET c == content["fix_coredns"]
    IN  IF Contains(c, old_healthcheck)
        THEN P_Edit("fix_coredns", Replace(c, old_healthcheck, new_healthcheck),
                    <<"Fixed docker-compose.yml healthcheck">>, "hcfix_match", "hcfix_write")
        ELSE P_Edit("fix_coredns", Subn(c)[1],
                    IF Subn(c)[2] # 0
                    THEN <<"Fixed docker-compose.yml healthcheck (regex)">>
                    ELSE <<"WARNING: Could not find CoreDNS healthcheck to fix">>,
                    "hcfix_match", "hcfix_write")
hcfix_Write == P_Write("fix_coredns", <<>>, "hcfix_write", "corefile_write")

\* fix_coredns.py, the rest of __main__
corefile_path == "/opt/oonrumail/app/docker/config/coredns/Corefile"
zone_path == "/opt/oonrumail/app/docker/config/coredns/zones/oonrumail.com.zone"
example_zone_path == "/opt/oonrumail/app/docker/config/coredns/zones/example.com.zone"
SERVER_IP == "138.201.37.187"
DOCKER_IP == "172.28.0.1"
corefile == <<"# CoreDNS Configuration for OonruMail ...">>
zone == <<"; DNS Zone File: oonrumail.com ...">>

update_corefile ==
    P_WriteText("fix_coredns", corefile_path, corefile, <<"Updated Corefile">>,
                "corefile_write", "zone_write")
create_oonrumail_zone ==
    P_WriteText("fix_coredns", zone_path, zone, <<"Created zone file">>,
                "zone_write", "example_read")
example_Read == P_ReadPath("fix_coredns", example_zone_path, "example_read", "example_replace")
example_Replace ==
    P_Edit("fix_coredns", Replace(content["fix_coredns"], <<DOCKER_IP>>, <<SERVER_IP>>), <<>>,
           "example_replace", "example_write")
example_Write ==
    P_WriteText("fix_coredns", example_zone_path, content["fix_coredns"],
                <<"Updated example.com zone", "\nAll CoreDNS fixes applied!">>,
                "example_write", "done")

\* fix_coredns_hc.py
hc_Read == P_Read("fix_coredns_hc", "hc_read", "hc_replace")
hc_Replace ==
    P_Edit("fix_coredns_hc",
           Replace(content["fix_coredns_hc"], new_healthcheck, <<HC_HDR, DISABLE, TAIL_ADMINER>>),
           <<>>, "hc_replace", "hc_write")
hc_Write ==
    P_Write("fix_coredns_hc",
            <<"Disabled CoreDNS healthcheck (scratch image has no binaries)">>,
            "hc_write", "done")

\* fix_compose_db.py: the line numbers (from 0) of the loop
db_lines == <<613, 656>>
fixed_line_msgs == <<"Fixed line 614", "Fixed line 657">>
HasPgbouncer == {DB_URL_PGBOUNCER, DEPENDS_PGBOUNCER}
HasSslmodeRequire == {DB_URL_PGBOUNCER}

db_Read == P_Read("fix_compose_db", "db_read", "db_loop")

\* the condition of line 9, and line 10
FixesLine(lines, idx) ==
    /\ idx < NLines(lines)
    /\ lines[ChunkIndex(lines, idx)] \in HasPgbouncer
    /\ lines[ChunkIndex(lines, idx)] \in HasSslmodeRequire
WithLineFixed(lines, idx) == [lines EXCEPT ![ChunkIndex(lines, idx)] = DB_URL_POSTGRES]

\* one turn of the loop without the test for 'sslmode=require'
db_Loop_no_sslmode_test ==
    /\ pc["fix_compose_db"] = "db_loop"
    /\ ri <= Len(db_lines)
    /\ LET lines == content["fix_compose_db"]
           idx == db_lines[ri]
       IN  IF idx < NLines(lines) /\ lines[ChunkIndex(lines, idx)] \in HasPgbouncer
           THEN /\ content' = [content EXCEPT !["fix_compose_db"] = WithLineFixed(lines, idx)]
                /\ out' = [out EXCEPT !["fix_compose_db"] = @ \o <<fixed_line_msgs[ri]>>]
           ELSE UNCHANGED <<content, out>>
    /\ ri' = ri + 1
    /\ UNCHANGED <<disk, fstat, pc, loc, run, orig, after1, trace, io>>

\* one turn of `for idx in [613, 656]`, ri counting the turns
db_Loop ==
    /\ pc["fix_compose_db"] = "db_loop"
    /\ ri <= Len(db_lines)
    /\ LET lines == content["fix_compose_db"]
           idx == db_lines[ri]
       IN  IF FixesLine(lines, idx)
           THEN /\ content' = [content EXCEPT !["fix_compose_db"] = WithLineFixed(lines, idx)]
                /\ out' = [out EXCEPT !["fix_compose_db"] = @ \o <<fixed_line_msgs[ri]>>]
           ELSE UNCHANGED <<content, out>>
    /\ ri' = ri + 1
    /\ UNCHANGED <<disk, fstat, pc, loc, run, orig, after1, trace, io>>

db_LoopEnd ==
    /\ pc["fix_compose_db"] = "db_loop"
    /\ ri > Len(db_lines)
    /\ pc' = [pc EXCEPT !["fix_compose_db"] = "db_write"]
    /\ UNCHANGED <<disk, fstat, content, ri, loc, out, run, orig, after1, trace, io>>

db_Write == P_Write("fix_compose_db", <<"Done!">>, "db_write", "done")

\* the first line of the CoreDNS healthcheck when it comes before the
\* database lines
HcStart == 100

\* f followed by filler up to line idx
Pad(f, idx) == f \o <<Fill(idx - NLines(f))>>

ComposeInputs ==
    { Pad(Pad(before, db_lines[1]) \o <<l1>>, db_lines[2]) \o <<l2>> \o after :
        l1 \in {DB_URL_PGBOUNCER, DB_URL_POSTGRES},
        l2 \in {DB_URL_PGBOUNCER, DEPENDS_PGBOUNCER},
        before \in {<<Fill(HcStart), HC_HDR, b, t>> :
                       b \in {OLD_BODY, OLD_BODY_60S, NEW_BODY}, t \in {TAIL_ADMINER, TAIL_OTHER}},
        after \in {<<Fill(1)>>} }
    \cup { <<Fill(HcStart), HC_HDR, OLD_BODY, TAIL_ADMINER>>,
           Pad(<<>>, db_lines[1]) \o <<DB_URL_PGBOUNCER, Fill(1), HC_HDR, OLD_BODY, TAIL_ADMINER>> }

InitCompose ==
    /\ \E f \in ComposeInputs, z \in {<<>>, <<"@ IN A ", DOCKER_IP>>} :
          disk = (compose_path :> f) @@ (corefile_path :> <<"old Corefile">>)
                 @@ (zone_path :> <<>>) @@ (example_zone_path :> z)
    /\ \E st \in {"ok", "missing", "readonly"} :
          fstat = (compose_path :> st) @@ (corefile_path :> "ok") @@ (zone_path :> "missing")
                  @@ (example_zone_path :> IF disk[example_zone_path] = <<>> THEN "missing" ELSE "ok")
    /\ MissingIsEmpty
    /\ pc = ("fix_coredns" :> "hcfix_read") @@ ("fix_coredns_hc" :> "hc_read")
            @@ ("fix_compose_db" :> "db_read")
    /\ content = [p \in Procs |-> <<>>]
    /\ out = [p \in Procs |-> <<>>]
    /\ ri = 1
    /\ loc = <<>>
    /\ run = 1
    /\ orig = disk
    /\ after1 = disk
    /\ trace = <<>>
    /\ io = <<>>

NextCompose ==
    \/ hcfix_Read
    \/ hcfix_Match
    \/ hcfix_Write
    \/ update_corefile
    \/ create_oonrumail_zone
    \/ example_Read
    \/ example_Replace
    \/ example_Write
    \/ hc_Read
    \/ hc_Replace
    \/ hc_Write
    \/ db_Read
    \/ db_Loop
    \/ db_LoopEnd
    \/ db_Write

SpecCompose == InitCompose /\ [][NextCompose]_vars

\* a script is between having loaded docker-compose.yml and having written
\* or abandoned it
Applying(p) == pc[p] \in {"hcfix_match", "hcfix_write", "hc_replace", "hc_write", "db_loop", "db_write"}

\* C10: at no time are two scripts both between loading and writing
\* docker-compose.yml.
C10_MutualExclusion ==
    \A p, q \in Procs : p # q => ~(Applying(p) /\ Applying(q))

----------------------------------------------------------------------------
(* Claims about blocks and line ranges                                     *)

\* the lines ls with Fix 2 of fix_handlers_calendar applied to each
WithRespondRequest(ls) ==
    [i \in 1..Len(ls) |-> IF ls[i] = RSVP_LINE THEN RESPOND_LINE ELSE ls[i]]

\* the first position at or after from where ls holds x, 0 when there is none
FirstAt(ls, x, from) ==
    LET hits == {i \in from..Len(ls) : ls[i] = x}
    IN  IF hits = {} THEN 0 ELSE CHOOSE i \in hits : \A j \in hits : i <= j

\* C11: when fix_handlers_calendar has gone through the lines, a uuid.Parse
\* line that no ShareCalendar line follows has caused no line to be deleted
\* or replaced, and a single uuid.Parse line followed by a ShareCalendar
\* line has replaced exactly the lines from the one up to, not including,
\* the other.
C11_AnchoredBlock ==
    pc = "fh_open" =>
        LET s == FirstAt(content, UUID_PARSE, 1)
            e == IF s = 0 THEN 0 ELSE FirstAt(content, SHARE_CALL, s)
        IN  /\ (s # 0 /\ e = 0) => loc.new_lines = WithRespondRequest(content)
            /\ (s # 0 /\ e # 0 /\ Count(content, <<UUID_PARSE>>) = 1) =>
                  loc.new_lines = WithRespondRequest(SubSeq(content, 1, s - 1))
                                     \o <<TARGET_ASSIGN>>
                                     \o WithRespondRequest(SubSeq(content, e, Len(content)))

----------------------------------------------------------------------------
(* src/scripts/fix_webhook.py: the file is a sequence of lines              *)

wh_filepath == "/opt/oonrumail/app/services/transactional-api/service/webhook.go"

PAYLOAD_OPEN == "\tpayload := &models.WebhookPayload{\n"
CLOSE_LINE == "\t}\n"
new_block_1 ==
    << PAYLOAD_OPEN,
       "\t\tEvent:      models.WebhookEventType(event.EventType),\n",
       "\t\tTimestamp:   event.Timestamp,\n",
       "\t\tMessageID:   event.MessageID.String(),\n",
       "\t\tRecipient:   event.Recipient,\n",
       "\t\tUserAgent:   event.UserAgent,\n",
       "\t\tIPAddress:   event.IPAddress,\n",
       "\t\tURL:         event.URL,\n",
       "\t\tBounceType:  event.BounceType,\n",
       "\t\tBounceCode:  event.BounceReason,\n",
       CLOSE_LINE,
       "\n" >>

\* lines[140:158]
fix1_start == 140
fix1_end == 158

TEST_PAYLOAD_OPEN == "\ttestPayload := &models.WebhookPayload{\n"
TEST_PAYLOAD_OLD_OPEN == "\ttestPayload := &models.WebhookPayload{ // old\n"
TEST_FIELD == "\t\tEvent: \"test\",\n"
NESTED_OPEN == "\t\tData: map[string]interface{}{\n"
NESTED_CLOSE == "\t\t},\n"
OLD_PAYLOAD_LINE == "\t// old payload construction and bounce block\n"
FILL_LINE == "// other code\n"
new_block_2 ==
    << TEST_PAYLOAD_OPEN,
       "\t\tEvent:     \"test\",\n",
       "\t\tTimestamp: time.Now(),\n",
       "\t\tMessageID: uuid.New().String(),\n",
       "\t\tRecipient: \"test@example.com\",\n",
       "\t\tReason:    \"This is a test webhook delivery\",\n",
       CLOSE_LINE >>

\* the lines that hold 'testPayload := &models.WebhookPayload{'
HasTestPayload == {TEST_PAYLOAD_OPEN, TEST_PAYLOAD_OLD_OPEN}

\* what the characters of a line add to brace_depth
BraceDelta(line) ==
    CASE line \in {CLOSE_LINE, NESTED_CLOSE} -> -1
      [] line \in {PAYLOAD_OPEN, NESTED_OPEN, TEST_PAYLOAD_OPEN, TEST_PAYLOAD_OLD_OPEN} -> 1
      [] OTHER -> 0

Min(a, b) == IF a < b THEN a ELSE b

\* lines[a:b] = block, for 0 <= a <= b
SliceAssign(lines, a, b, block) ==
    SubSeq(lines, 1, Min(a, Len(lines))) \o block
        \o SubSeq(lines, Min(b, Len(lines)) + 1, Len(lines))

wh_Read == ReadInto(wh_filepath, "wh_read", "wh_fix1", [i |-> 0, j |-> 0, brace_depth |-> 0])

wh_Fix1 ==
    EditStep(wh_filepath, 1, <<>>, SliceAssign(content, fix1_start, fix1_end, new_block_1),
             <<>>, "wh_fix1", "wh_find")

\* the for loop up to the first line that holds the marker
wh_Find ==
    /\ pc = "wh_find"
    /\ LET hits == {k \in 1..Len(content) : content[k] \in HasTestPayload}
           first == CHOOSE k \in hits : \A m \in hits : k <= m
       IN  IF hits = {}
           THEN /\ pc' = "wh_write"
                /\ loc' = loc
           ELSE /\ pc' = "wh_scan"
                /\ loc' = [i |-> first - 1, j |-> first, brace_depth |-> 1]
    /\ UNCHANGED <<disk, fstat, content, ri, out, run, orig, after1, trace, io>>

\* one pass of `while j < len(lines)`
wh_Scan ==
    /\ pc = "wh_scan"
    /\ IF loc.j < Len(content)
       THEN LET d == loc.brace_depth + BraceDelta(content[loc.j + 1])
            IN  IF d = 0
                THEN /\ loc' = [loc EXCEPT !.brace_depth = d]
                     /\ pc' = "wh_replace"
                ELSE /\ loc' = [loc EXCEPT !.brace_depth = d, !.j = loc.j + 1]
                     /\ pc' = "wh_scan"
       ELSE /\ loc' = loc
            /\ pc' = "wh_replace"
    /\ UNCHANGED <<disk, fstat, content, ri, out, run, orig, after1, trace, io>>

\* j += 1; lines[i:j] = new_block_2; print; break
wh_Replace ==
    EditStep(wh_filepath, 2, <<TEST_PAYLOAD_OPEN>>,
             SliceAssign(content, loc.i, loc.j + 1, new_block_2),
             <<"Fixed testPayload at lines">>, "wh_replace", "wh_write")

wh_Write ==
    WriteFile(wh_filepath, "wh_write", "done", <<"Done - both payload constructions fixed">>)

MaxTail == 3

\* n lines, the old payload code on lines 141-158
BaseLines(n) ==
    [k \in 1..n |-> IF k > fix1_start /\ k <= fix1_end THEN OLD_PAYLOAD_LINE ELSE FILL_LINE]

WebhookGoInputs ==
    { SubSeq(BaseLines(n), 1, Min(at, n)) \o blk \o SubSeq(BaseLines(n), Min(at, n) + 1, n) :
        n \in {0, MaxTail, fix1_start + MaxTail, fix1_end, fix1_end + MaxTail},
        at \in {0, fix1_start + 1, fix1_end + MaxTail},
        blk \in { <<>>,
                  <<TEST_PAYLOAD_OLD_OPEN, TEST_FIELD, CLOSE_LINE>>,
                  <<TEST_PAYLOAD_OLD_OPEN, NESTED_OPEN, TEST_FIELD, NESTED_CLOSE, CLOSE_LINE>>,
                  <<TEST_PAYLOAD_OLD_OPEN, TEST_FIELD>>,
                  new_block_2 } }

InitWebhook ==
    /\ \E f \in WebhookGoInputs : disk = (wh_filepath :> f)
    /\ \E st \in {"ok", "missing", "readonly"} : fstat = (wh_filepath :> st)
    /\ MissingIsEmpty
    /\ Start("wh_read")

NextWebhook ==
    \/ wh_Read
    \/ wh_Fix1
    \/ wh_Find
    \/ wh_Scan
    \/ wh_Replace
    \/ wh_Write

SpecWebhook == InitWebhook /\ [][NextWebhook]_vars

\* C12: right after Fix 1 of fix_webhook.py, a file that has fewer lines
\* than the range 141-158 asks for has been left as it was read.
C12_LineRange ==
    pc = "wh_find" =>
        (Len(orig[wh_filepath]) < fix1_end => content = orig[wh_filepath])

\* the testPayload block of Fix 2 starts inside the lines that Fix 1 replaces
SpansOverlap(f) ==
    \E k \in (fix1_start + 1)..Min(fix1_end, Len(f)) : f[k] \in HasTestPayload

\* C16: when the block that Fix 2 of fix_webhook.py is to replace starts
\* inside the line range that Fix 1 replaces, the run is refused before it
\* starts: webhook.go is never modified.
C16_PlanValidation ==
    SpansOverlap(orig[wh_filepath]) => disk[wh_filepath] = orig[wh_filepath]

----------------------------------------------------------------------------
(* Claims about the order of reads, edits and writes                       *)

\* the reads, and the writes, of path p so far
Reads(p) == {k \in 1..Len(io) : io[k].op = "read" /\ io[k].path = p}
Writes(p) == {k \in 1..Len(io) : io[k].op = "write" /\ io[k].path = p}

\* C13: in a run of fix_calendar.py each file is read at most once and
\* written at most once (once the run is over, every file written was read
\* exactly once), and no edit of a file is still to come once it has been
\* written.
C13_Progression ==
    \A p \in CalendarPaths :
        /\ Cardinality(Reads(p)) <= 1
        /\ Cardinality(Writes(p)) <= 1
        /\ Writes(svc_path) # {} => pc \notin {"cal_svc_rules", "cal_uuid"}

----------------------------------------------------------------------------
(* Claims about whole runs of the docker-compose.yml scripts               *)

\* the exit status of a script that has ended: 0 at the end of the module,
\* 1 after an uncaught exception, -1 while it runs
ExitCode(self) ==
    CASE pc[self] = "done" -> 0
      [] pc[self] = "traceback" -> 1
      [] OTHER -> -1

\* C14: fix_coredns.py exits with code 0 only if it patched every file: a
\* run that printed the warning that the healthcheck was not found does not
\* exit with 0.
C14_ExitCode ==
    ExitCode("fix_coredns") = 0 =>
        ~Contains(out["fix_coredns"], <<"WARNING: Could not find CoreDNS healthcheck to fix">>)

\* what each script alone makes of the text f of docker-compose.yml
AfterComposeDb(f) ==
    LET g == IF FixesLine(f, db_lines[1]) THEN WithLineFixed(f, db_lines[1]) ELSE f
    IN  IF FixesLine(g, db_lines[2]) THEN WithLineFixed(g, db_lines[2]) ELSE g
AfterCorednsHc(f) == Replace(f, new_healthcheck, <<HC_HDR, DISABLE, TAIL_ADMINER>>)

\* C20: when fix_compose_db.py and fix_coredns_hc.py have both ended
\* normally (and fix_coredns.py has not started), docker-compose.yml is what
\* the two scripts make of the original file when run one after the other, in
\* one order or the other.
C20_NoLostUpdate ==
    (/\ pc["fix_compose_db"] = "done"
     /\ pc["fix_coredns_hc"] = "done"
     /\ pc["fix_coredns"] = "hcfix_read") =>
        disk[compose_path] \in { AfterCorednsHc(AfterComposeDb(orig[compose_path])),
                                 AfterComposeDb(AfterCorednsHc(orig[compose_path])) }

----------------------------------------------------------------------------
(* Claims about what a result depends on                                   *)

RECURSIVE ApplyAll(_, _)
\* the replace statements of a rule table, one after the other, on text c
ApplyAll(rules, c) ==
    IF rules = <<>> THEN c
    ELSE ApplyAll(Tail(rules), Replace(c, Head(rules).old, Head(rules).new))

\* what fix_models.py makes of each of its files, from that file alone
ModelsResult(p, c) ==
    CASE p = webhook_path -> IF HasText(c, HasWebhookResponse) THEN c ELSE c \o addition
      [] p = handler_path -> ApplyAll(fix_models_rules, c)
      [] p = paginated_path -> IF HasText(c, HasPaginatedResponse) THEN c ELSE paginated_content

\* C15: when fix_models.py has ended, the text of each of its files is a
\* function of what that file held before the run, whatever the other
\* files hold: webhook.go with the definition appended if the name was
\* absent, other.go with the two replaces applied, and pagination.go
\* holding the PaginatedResponse definition.
C15_Determinism ==
    (pc = "done" /\ Reads(webhook_path) # {}) =>
        \A p \in {webhook_path, handler_path, paginated_path} :
            disk[p] = ModelsResult(p, orig[p])

----------------------------------------------------------------------------
(* A run of fix_calendar4.py that can be interrupted at any step, its      *)
(* writes taken a piece at a time                                          *)

c4_OpenSvc == WriteOpen(svc_path, content, "c4_write_svc", "c4_writing_svc")
c4_DataSvc == WriteData(svc_path, content, "c4_writing_svc")
c4_CloseSvc == WriteClose(svc_path, content, "c4_writing_svc", "c4_read_notif", <<>>)
c4_OpenNotif == WriteOpen(notif_path, content, "c4_write_notif", "c4_writing_notif")
c4_DataNotif == WriteData(notif_path, content, "c4_writing_notif")
c4_CloseNotif == WriteClose(notif_path, content, "c4_writing_notif", "c4_read_cfg", <<>>)
c4_OpenCfg == WriteOpen(cfg_path, content, "c4_write_cfg", "c4_writing_cfg")
c4_DataCfg == WriteData(cfg_path, content, "c4_writing_cfg")
c4_CloseCfg ==
    WriteClose(cfg_path, content, "c4_writing_cfg", "done", <<"All calendar fixes applied!">>)

Cal4KillNotifInputs ==
    { <<>>, <<STATUS_CALL>>, <<CFG, SMTP, HOST>>,
      <<BYTES_IMPORT, NS_HDR, LBRACE, "\n", RBRACE, NEW_FN, RETURN_NS, RBRACE>> }

InitCal4Kill ==
    /\ \E c \in Cal4SvcInputs, n \in Cal4KillNotifInputs, g \in Cal4CfgInputs :
          disk = (svc_path :> c) @@ (notif_path :> n) @@ (cfg_path :> g)
    /\ fstat = AllOk(Cal4Paths)
    /\ Start("c4_read_svc")

NextCal4Kill ==
    \/ c4_ReadSvc
    \/ c4_SvcRule
    \/ c4_OpenSvc
    \/ c4_DataSvc
    \/ c4_CloseSvc
    \/ c4_ReadNotif
    \/ c4_NotifRule
    \/ c4_StructField
    \/ c4_Constructor
    \/ c4_OpenNotif
    \/ c4_DataNotif
    \/ c4_CloseNotif
    \/ c4_ReadCfg
    \/ c4_CfgRule
    \/ c4_OpenCfg
    \/ c4_DataCfg
    \/ c4_CloseCfg
    \/ Crash

SpecCal4Kill == InitCal4Kill /\ [][NextCal4Kill]_vars

\* C17: when a run of fix_calendar4.py has been interrupted, each of its
\* files holds either the text it had before the run (nothing of it was
\* written) or the complete text the run wrote to it; a run interrupted
\* before its first step has changed nothing.
C17_Cancellation ==
    pc = "crashed" =>
        /\ io = <<>> => disk = orig
        /\ \A p \in Cal4Paths :
              \/ disk[p] = orig[p]
              \/ \E k \in Writes(p) : disk[p] = io[k].text

----------------------------------------------------------------------------
(* src/fix_config_yaml.py: the text is a sequence of pieces: "${", a       *)
(* variable name, ":-", "}", and text without braces                       *)

calendar_yaml_path == "/opt/oonrumail/app/services/calendar/config.yaml"

DOLLAR_BRACE == "${"
COLON_DASH == ":-"
VAR == "VAR"
OTHER_VAR == "OTHER"
URL_TEXT == "http://localhost:8080/path"
\* the pieces that [A-Za-z_][A-Za-z0-9_]* matches whole
Names == {VAR, OTHER_VAR}

\* how many pieces the pattern \$\{([A-Za-z_][A-Za-z0-9_]*):-[^}]*\} matches
\* at the front of s, 0 when it does not match there
MatchLen(s) ==
    IF /\ Len(s) >= 4
       /\ s[1] = DOLLAR_BRACE
       /\ s[2] \in Names
       /\ s[3] = COLON_DASH
       /\ \E k \in 4..Len(s) : s[k] = RBRACE
    THEN CHOOSE k \in 4..Len(s) : s[k] = RBRACE /\ \A m \in 4..(k - 1) : s[m] # RBRACE
    ELSE 0

RECURSIVE Sub(_)
\* re.sub(pattern, r'${\1}', s): leftmost matches, left to right
Sub(s) ==
    IF s = <<>> THEN <<>>
    ELSE IF MatchLen(s) > 0
         THEN <<DOLLAR_BRACE, s[2], RBRACE>> \o Sub(SubSeq(s, MatchLen(s) + 1, Len(s)))
         ELSE <<Head(s)>> \o Sub(Tail(s))

\* print(f"{'Fixed' if changes else 'No changes needed for'} {path}")
ChangesMsg ==
    IF trace[Len(trace)].after # trace[Len(trace)].before
    THEN <<"Fixed">> ELSE <<"No changes needed for">>

y1_Read == ReadFile(calendar_yaml_path, "y1_read", "y1_sub")
y1_Sub == EditStep(calendar_yaml_path, 1, <<DOLLAR_BRACE>>, Sub(content), <<>>, "y1_sub", "y1_write")
y1_Write == WriteFile(calendar_yaml_path, "y1_write", "y2_read", ChangesMsg)
y2_Read == ReadFile(port_path, "y2_read", "y2_sub")
y2_Sub == EditStep(port_path, 1, <<DOLLAR_BRACE>>, Sub(content), <<>>, "y2_sub", "y2_write")
y2_Write == WriteFile(port_path, "y2_write", "done", ChangesMsg \o <<"Done!">>)

MaxYamlItems == 2

YamlItems ==
    { <<URL_TEXT>>,
      <<RBRACE>>,
      <<DOLLAR_BRACE, VAR, RBRACE>>,
      <<DOLLAR_BRACE, VAR, COLON_DASH, RBRACE>>,
      <<DOLLAR_BRACE, VAR, COLON_DASH, URL_TEXT, RBRACE>>,
      <<DOLLAR_BRACE, VAR, COLON_DASH, DOLLAR_BRACE, OTHER_VAR, RBRACE, RBRACE>>,
      <<DOLLAR_BRACE, VAR, COLON_DASH, URL_TEXT, DOLLAR_BRACE, OTHER_VAR, COLON_DASH, URL_TEXT,
        RBRACE, RBRACE>>,
      <<DOLLAR_BRACE, URL_TEXT, COLON_DASH, URL_TEXT, RBRACE>> }

RECURSIVE Flatten(_)
Flatten(ss) == IF ss = <<>> THEN <<>> ELSE Head(ss) \o Flatten(Tail(ss))

YamlInputs == {Flatten(items) : items \in SeqsUpTo(YamlItems, MaxYamlItems)}

YamlPaths == {calendar_yaml_path, port_path}

InitYaml ==
    /\ \E a \in YamlInputs, b \in {<<>>, <<DOLLAR_BRACE, VAR, COLON_DASH, URL_TEXT, RBRACE>>} :
          disk = (calendar_yaml_path :> a) @@ (port_path :> b)
    /\ \E p \in YamlPaths, st \in {"ok", "missing", "readonly"} :
          fstat = [AllOk(YamlPaths) EXCEPT ![p] = st]
    /\ MissingIsEmpty
    /\ Start("y1_read")

NextYaml ==
    \/ y1_Read
    \/ y1_Sub
    \/ y1_Write
    \/ y2_Read
    \/ y2_Sub
    \/ y2_Write

SpecYaml == InitYaml /\ [][NextYaml]_vars

\* the position of the "}" that closes the "${" at the front of s, counting
\* nested "${" ... "}" pairs, 0 when it is never closed
RECURSIVE CloseOf(_, _, _)
CloseOf(s, k, depth) ==
    IF k > Len(s) THEN 0
    ELSE IF s[k] = DOLLAR_BRACE THEN CloseOf(s, k + 1, depth + 1)
    ELSE IF s[k] = RBRACE
         THEN IF depth = 1 THEN k ELSE CloseOf(s, k + 1, depth - 1)
    ELSE CloseOf(s, k + 1, depth)

RECURSIVE WithoutDefaults(_)
\* every ${VAR:-default} expression, taken up to the brace that closes it,
\* replaced by ${VAR}, and nothing else changed
WithoutDefaults(s) ==
    IF s = <<>> THEN <<>>
    ELSE IF /\ Len(s) >= 4
            /\ s[1] = DOLLAR_BRACE /\ s[2] \in Names /\ s[3] = COLON_DASH
            /\ CloseOf(s, 2, 1) # 0
         THEN <<DOLLAR_BRACE, s[2], RBRACE>>
                 \o WithoutDefaults(SubSeq(s, CloseOf(s, 2, 1) + 1, Len(s)))
         ELSE <<Head(s)>> \o WithoutDefaults(Tail(s))

\* C18: after fix_config_yaml has written a file, the file is its old text
\* with every ${VAR:-default} expression replaced by ${VAR}, whole default
\* removed, nested expressions in the default included, and nothing else
\* changed.
C18_DefaultsRemoved ==
    \A p \in YamlPaths : Writes(p) # {} => disk[p] = WithoutDefaults(orig[p])

----------------------------------------------------------------------------
(* src/scripts/fix_config.py: config.go as pieces of text; a struct tag    *)
(* is split at its quotes and backslashes                                  *)

bt == "'"
BACKSLASH == "\\"
DQUOTE == "\""
SQUOTE == "''"
YAML_COLON == "yaml:"
PUBLICURL_DECL == "\tPublicURL string "
USERNAME_DECL == "\tUsername string "
PASSWORD_DECL == "\tPassword string "

\* 'yaml:\\"username\\"', 'yaml:\\"password\\"', 'yaml:\\"publicURL\\"'
MangledTag(name) == <<YAML_COLON, BACKSLASH, DQUOTE, name, BACKSLASH, DQUOTE>>
\* "yaml:\\'publicURL\\'"
MangledTagSingle(name) == <<YAML_COLON, BACKSLASH, SQUOTE, name, BACKSLASH, SQUOTE>>
\* 'yaml:"publicURL"'
GoodTag(name) == <<YAML_COLON, DQUOTE, name, DQUOTE>>

fix_config_old == <<"\tReminderLookAhead int ", bt>> \o GoodTag("reminderLookAhead")
                     \o <<bt, " // Minutes to look ahead for reminders">>
fix_config_new == <<"\tReminderLookAhead int    ", bt>> \o GoodTag("reminderLookAhead")
                     \o <<bt, " // Minutes to look ahead for reminders", NL>>
                     \o <<"\tUsername          string ", bt>> \o GoodTag("username") \o <<bt, NL>>
                     \o <<"\tPassword          string ", bt>> \o GoodTag("password") \o <<bt>>

\* the lines that the list comprehension of line 8 keeps
cleaned(lines) ==
    SelectSeq(lines, LAMBDA l : /\ ~Contains(l, MangledTag("username"))
                                /\ ~Contains(l, MangledTag("password"))
                                /\ ~Contains(l, <<YAML_COLON, BACKSLASH>>))

fc_Read == ReadFile(cfg_path, "fc_read", "fc_clean")

fc_Clean ==
    EditStep(cfg_path, 1, <<YAML_COLON, BACKSLASH>>,
             Join(cleaned(Split(content, <<NL>>)), <<NL>>), <<>>, "fc_clean", "fc_add")

fc_Add ==
    EditStep(cfg_path, 2, fix_config_old, Replace(content, fix_config_old, fix_config_new),
             <<>>, "fc_add", "fc_publicurl")

fc_PublicURL ==
    IF \/ Contains(content, MangledTag("publicURL"))
       \/ Contains(content, MangledTagSingle("publicURL"))
    THEN EditStep(cfg_path, 3, MangledTag("publicURL"),
                  Replace(content, MangledTag("publicURL"), GoodTag("publicURL")),
                  <<>>, "fc_publicurl", "fc_write")
    ELSE SkipStep("fc_publicurl", "fc_write")

fc_Write ==
    WriteFile(cfg_path, "fc_write", "done",
              <<"Fixed config.go backticks and added Username/Password">>)

MaxConfigLines == 3

ConfigLines ==
    { <<"}">>,
      fix_config_old,
      <<PUBLICURL_DECL, bt>> \o GoodTag("publicURL") \o <<bt>>,
      <<PUBLICURL_DECL>> \o MangledTag("publicURL"),
      <<PUBLICURL_DECL>> \o MangledTagSingle("publicURL"),
      <<USERNAME_DECL>> \o MangledTag("username"),
      <<PASSWORD_DECL>> \o MangledTag("password") }

ConfigGoInputs ==
    {Join(ls, <<NL>>) : ls \in SeqsUpTo(ConfigLines, MaxConfigLines) \ {<<>>}} \cup {<<>>}

InitConfig ==
    /\ \E c \in ConfigGoInputs : disk = (cfg_path :> c)
    /\ \E st \in {"ok", "missing", "readonly"} : fstat = (cfg_path :> st)
    /\ MissingIsEmpty
    /\ Start("fc_read")

NextConfig ==
    \/ fc_Read
    \/ fc_Clean
    \/ fc_Add
    \/ fc_PublicURL
    \/ fc_Write

SpecConfig == InitConfig /\ [][NextConfig]_vars

\* C19: when config.go held a PublicURL field line whose yaml tag was written
\* with backslash-escaped quotes, the file written by fix_config.py still
\* holds the PublicURL field, its tag reads yaml:"publicURL" and no mangled
\* PublicURL tag is left.
C19_PublicURLRepaired ==
    (Writes(cfg_path) # {}
        /\ Contains(orig[cfg_path], <<PUBLICURL_DECL>> \o MangledTag("publicURL")))
    => /\ Contains(disk[cfg_path], <<PUBLICURL_DECL>>)
       /\ Contains(disk[cfg_path], GoodTag("publicURL"))
       /\ ~Contains(disk[cfg_path], MangledTag("publicURL"))

----------------------------------------------------------------------------
(* src/scripts/fix_calendar3.py, src/scripts/fix_cal_trans.py and the      *)
(* calendar.go part of src/scripts/fix_calendar4.py, run one after another *)

old_replace == "if err := s.reminderRepo.ReplaceForEvent(ctx, eventID, req.Reminders); err != nil {"
new_replace == "newReminders := make([]*models.Reminder, len(req.Reminders))\n\t\t\tfor i, r := range req.Reminders {\n\t\t\t\tnewReminders[i] = &models.Reminder{\n\t\t\t\t\tID:      uuid.New(),\n\t\t\t\t\tEventID: eventID,\n\t\t\t\t\tMethod:  r.Method,\n\t\t\t\t\tMinutes: r.Minutes,\n\t\t\t\t}\n\t\t\t}\n\t\t\tif err := s.reminderRepo.ReplaceForEvent(ctx, eventID, newReminders); err != nil {"

\* the pairs of `replacements`, then old_replace and new_replace; each rule
\* is applied, and its message printed, only if its old text is in content
fix_calendar3_rules ==
    << Rule(<<"if req.Title != \"\" && req.Title != event.Title {\n\t\tevent.Title = req.Title">>,
            <<"if req.Title != nil && *req.Title != event.Title {\n\t\tevent.Title = *req.Title">>,
            <<"Fixed: if req.Title != \"\" && req.Title != event...">>),
       Rule(<<"if !req.StartTime.IsZero() && !req.StartTime.Equal(event.StartTime) {\n\t\tevent.StartTime = req.StartTime">>,
            <<"if req.StartTime != nil && !req.StartTime.IsZero() && !req.StartTime.Equal(event.StartTime) {\n\t\tevent.StartTime = *req.StartTime">>,
            <<"Fixed: if !req.StartTime.IsZero() && !req.Start...">>),
       Rule(<<"if !req.EndTime.IsZero() && !req.EndTime.Equal(event.EndTime) {\n\t\tevent.EndTime = req.EndTime">>,
            <<"if req.EndTime != nil && !req.EndTime.IsZero() && !req.EndTime.Equal(event.EndTime) {\n\t\tevent.EndTime = *req.EndTime">>,
            <<"Fixed: if !req.EndTime.IsZero() && !req.EndTime...">>),
       Rule(<<"if req.Timezone != \"\" {\n\t\tevent.Timezone = req.Timezone">>,
            <<"if req.Timezone != nil && *req.Timezone != \"\" {\n\t\tevent.Timezone = *req.Timezone">>,
            <<"Fixed: if req.Timezone != \"\" {\n\t\tevent.Timezone...">>),
       Rule(<<"if req.Status != \"\" {\n\t\tevent.Status = req.Status">>,
            <<"if req.Status != nil && *req.Status != \"\" {\n\t\tevent.Status = *req.Status">>,
            <<"Fixed: if req.Status != \"\" {\n\t\tevent.Status = r...">>),
       Rule(<<"if req.Visibility != \"\" {\n\t\tevent.Visibility = req.Visibility">>,
            <<"if req.Visibility != nil && *req.Visibility != \"\" {\n\t\tevent.Visibility = *req.Visibility">>,
            <<"Fixed: if req.Visibility != \"\" {\n\t\tevent.Visibi...">>),
       Rule(<<TRANSP_PLAIN>>, <<TRANSP_PTR>>,
            <<"Fixed: if req.Transparency != \"\" {\n\t\tevent.Tran...">>),
       Rule(<<old_replace>>, <<new_replace>>,
            <<"Fixed ReplaceForEvent reminder conversion">>) >>

fix_cal_trans_rules ==
    << Rule(<<TRANSP_PTR>>, <<TRANSP_PLAIN>>, <<>>) >>

c3_Read == ReadInto(svc_path, "c3_read", "c3_rules", <<>>)

\* if old in content: content = content.replace(old, new); print(...)
c3_Rule ==
    /\ pc = "c3_rules"
    /\ ri \in 1..Len(fix_calendar3_rules)
    /\ LET r == fix_calendar3_rules[ri]
           found == Contains(content, r.old)
           b == IF found THEN Replace(content, r.old, r.new) ELSE content
           msg == IF found THEN r.msg ELSE <<>>
       IN  /\ content' = b
           /\ trace' = Append(trace, [path |-> svc_path, rule |-> ri, run |-> run,
                                      old |-> r.old, before |-> content,
                                      after |-> b, msg |-> msg])
           /\ out' = out \o msg
    /\ ri' = ri + 1
    /\ pc' = IF ri = Len(fix_calendar3_rules) THEN "c3_write" ELSE "c3_rules"
    /\ UNCHANGED <<disk, fstat, loc, run, orig, after1, io>>

c3_Write == WriteFile(svc_path, "c3_write", "shell", <<"\nAll pointer fixes applied!">>)

\* the scripts that the operator runs after fix_calendar3.py, in either order
LaterScripts == {"fix_cal_trans", "fix_calendar4"}

\* the operator starts the next script, or stops when both have run;
\* loc lists the scripts started so far
RunNext ==
    /\ pc = "shell"
    /\ \/ \E s \in LaterScripts \ Range(loc) :
             /\ loc' = Append(loc, s)
             /\ pc' = IF s = "fix_cal_trans" THEN "ct_read" ELSE "o4_read"
       \/ /\ LaterScripts \subseteq Range(loc)
          /\ pc' = "done"
          /\ UNCHANGED loc
    /\ UNCHANGED <<disk, fstat, content, ri, out, run, orig, after1, trace, io>>

ct_Read == ReadFile(svc_path, "ct_read", "ct_rules")
ct_Rule == ReplaceStep(svc_path, fix_cal_trans_rules, "ct_rules", "ct_write")
ct_Write ==
    WriteFile(svc_path, "ct_write", "shell", <<"Reverted Transparency to plain string handling">>)

o4_Read == ReadFile(svc_path, "o4_read", "o4_rules")
o4_Rule == ReplaceStep(svc_path, fix_calendar4_svc_rules, "o4_rules", "o4_write")
o4_Write == WriteFile(svc_path, "o4_write", "shell", <<>>)

MaxSvcLen == 3

UndoInputs ==
    SeqsUpTo({TAB, TRANSP_PLAIN, TRANSP_PTR, BLOCK_END, old_replace}, MaxSvcLen)
        \cup { <<TAB, TRANSP_PLAIN, BLOCK_END, TAB, TRANSP_PLAIN, BLOCK_END>>,
               <<TAB, TRANSP_PLAIN, BLOCK_END, "fbr.", "Periods">>,
               <<"if req.Title != \"\" && req.Title != event.Title {\n\t\tevent.Title = req.Title",
                 TAB, TRANSP_PLAIN, BLOCK_END>> }

InitUndo ==
    /\ \E c \in UndoInputs : disk = (svc_path :> c)
    /\ \E st \in {"ok", "missing", "readonly"} : fstat = (svc_path :> st)
    /\ MissingIsEmpty
    /\ Start("c3_read")

NextUndo ==
    \/ c3_Read
    \/ c3_Rule
    \/ c3_Write
    \/ RunNext
    \/ ct_Read
    \/ ct_Rule
    \/ ct_Write
    \/ o4_Read
    \/ o4_Rule
    \/ o4_Write

SpecUndo == InitUndo /\ [][NextUndo]_vars

\* calendar.go as fix_calendar3.py wrote it
AfterCalendar3 == io[CHOOSE k \in Writes(svc_path) : \A m \in Writes(svc_path) : k <= m].text

\* the places of a piece of text in a file
PlacesOf(f, t) == {i \in 1..Len(f) : f[i] = t}

\* C21: for a calendar.go without the pointer form of the Transparency
\* check, fix_calendar3.py followed by fix_cal_trans.py leaves every
\* Transparency check in its plain form again and no pointer form, and once
\* fix_cal_trans.py and fix_calendar4.py have both run the file is the same
\* whichever of the two ran first.
C21_UndoRoundTrip ==
    ~Contains(orig[svc_path], <<TRANSP_PTR>>) =>
        /\ (pc = "shell" /\ loc = <<"fix_cal_trans">>) =>
              /\ PlacesOf(disk[svc_path], TRANSP_PLAIN) = PlacesOf(orig[svc_path], TRANSP_PLAIN)
              /\ ~Contains(disk[svc_path], <<TRANSP_PTR>>)
        /\ pc = "done" =>
              /\ disk[svc_path] = ApplyAll(fix_calendar4_svc_rules,
                                           ApplyAll(fix_cal_trans_rules, AfterCalendar3))
              /\ disk[svc_path] = ApplyAll(fix_cal_trans_rules,
                                           ApplyAll(fix_calendar4_svc_rules, AfterCalendar3))

----------------------------------------------------------------------------
(* src/scripts/fix_ai2.py: service.go is a sequence of lines, each line a  *)
(* string that ends with its newline; indices are those of Python, from 0, *)
(* and None is written -1                                                  *)

ai2_filepath == "/opt/oonrumail/app/services/ai-assistant/embedding/service.go"
autoreply_path == "/opt/oonrumail/app/services/ai-assistant/autoreply/service.go"

None == -1

LOCAL_DEF == "\ttype embeddingItem struct {\n"
LOCAL_FIELD == "\t\tindex int\n"
LOCAL_CLOSE == "\t}\n"
BLANK == "\n"
PKG_TYPE == "type Service struct {\n"
PKG_FIELD == "\trouter Router\n"
PKG_CLOSE == "}\n"
PKG_DEF == "type embeddingItem struct {\n"
FUNC_LINE == "func (s *Service) processSingleBatch(ctx context.Context) {\n"
COMMENT_LINE == "// Service generates embeddings\n"
PROVIDER_OLD == "\tprovider, err := s.router.GetEmbeddingProvider(ctx)\n"
PROVIDER_NEW == "\tembProvider, err := s.router.GetEmbeddingProvider(ctx)\n"
BATCH_OLD == "\tresp, err := provider.GenerateEmbeddingBatch(ctx, batchReq)\n"
BATCH_NEW == "\tresp, err := embProvider.GenerateEmbeddingBatch(ctx, batchReq)\n"
JSON_IMPORT_LINE == "\t\"encoding/json\"\n"

pkg_struct ==
    << "\n",
       "type embeddingItem struct {\n",
       "\tindex       int\n",
       "\trequest     EmbeddingRequest\n",
       "\tcontentHash string\n",
       "\tcacheKey    string\n",
       "}\n" >>

\* '\ttype embeddingItem struct {' in line
HasLocalDef(line) == line = LOCAL_DEF
\* line.strip() == '}'
IsCloseBrace(line) == line \in {LOCAL_CLOSE, PKG_CLOSE}
\* line.strip() == ''
IsBlank(line) == line = BLANK
\* line.startswith('type ') and 'struct' in line
IsTypeStruct(line) == line \in {PKG_TYPE, PKG_DEF}
\* line.startswith('}')
StartsWithBrace(line) == line = PKG_CLOSE
\* line.startswith('/')
StartsWithSlash(line) == line = COMMENT_LINE
\* line.startswith('func ')
IsFunc(line) == line = FUNC_LINE

\* lines[k] for a Python index k
At(lines, k) == lines[k + 1]

\* del lines[a:b]
DelSlice(lines, a, b) ==
    IF a >= b THEN lines
    ELSE SubSeq(lines, 1, a) \o SubSeq(lines, Min(b, Len(lines)) + 1, Len(lines))

\* the two replace statements of Fix 2 on one line
RenameProvider(line) ==
    CASE line = PROVIDER_OLD -> PROVIDER_NEW
      [] line = BATCH_OLD -> BATCH_NEW
      [] line = BATCH_NEW -> "\tresp, err := embembProvider.GenerateEmbeddingBatch(ctx, batchReq)\n"
      [] OTHER -> line

ai2_Read ==
    ReadInto(ai2_filepath, "ai2_read", "ai2_find",
             [local_start |-> None, local_end |-> None, insert_idx |-> None, i |-> 0, j |-> 0])

\* lines 13-18: one iteration of the search for the local definition
ai2_Find ==
    /\ pc = "ai2_find"
    /\ IF loc.i >= Len(content)
       THEN /\ pc' = "ai2_remove"
            /\ UNCHANGED loc
       ELSE LET line == At(content, loc.i)
                start == IF HasLocalDef(line) THEN loc.i ELSE loc.local_start
            IN  IF start # None /\ loc.local_end = None /\ IsCloseBrace(line)
                THEN /\ loc' = [loc EXCEPT !.local_start = start, !.local_end = loc.i + 1]
                     /\ pc' = "ai2_remove"
                ELSE /\ loc' = [loc EXCEPT !.local_start = start, !.i = loc.i + 1]
                     /\ pc' = "ai2_find"
    /\ UNCHANGED <<disk, fstat, content, ri, out, run, orig, after1, trace, io>>

\* lines 20-25
ai2_Remove ==
    /\ pc = "ai2_remove"
    /\ IF loc.local_start # None /\ loc.local_end # None
       THEN LET last == IF loc.local_end < Len(content) /\ IsBlank(At(content, loc.local_end))
                        THEN loc.local_end + 1 ELSE loc.local_end
            IN  /\ content' = DelSlice(content, loc.local_start, last)
                /\ out' = out \o <<"Removed local embeddingItem definition from lines",
                                   ToString(loc.local_start + 1), ToString(last)>>
                /\ loc' = [loc EXCEPT !.local_end = last, !.i = 0]
       ELSE /\ loc' = [loc EXCEPT !.i = 0]
            /\ UNCHANGED <<content, out>>
    /\ pc' = "ai2_scan"
    /\ UNCHANGED <<disk, fstat, ri, run, orig, after1, trace, io>>

\* lines 30-33 and 37-38: one iteration of the for loop
ai2_Scan ==
    /\ pc = "ai2_scan"
    /\ IF loc.i >= Len(content)
       THEN /\ pc' = "ai2_insert"
            /\ UNCHANGED loc
       ELSE LET line == At(content, loc.i)
            IN  IF IsTypeStruct(line)
                THEN /\ loc' = [loc EXCEPT !.j = loc.i + 1]
                     /\ pc' = "ai2_end"
                ELSE IF IsFunc(line)
                THEN /\ pc' = "ai2_insert"
                     /\ UNCHANGED loc
                ELSE /\ loc' = [loc EXCEPT !.i = loc.i + 1]
                     /\ pc' = "ai2_scan"
    /\ UNCHANGED <<disk, fstat, content, ri, out, run, orig, after1, trace, io>>

\* lines 34-36: one test of the while condition
ai2_End ==
    /\ pc = "ai2_end"
    /\ LET j == loc.j
           n == Len(content)
       IN  IF /\ j < n
              /\ ~(/\ StartsWithBrace(At(content, j))
                   /\ (\/ j + 1 >= n
                       \/ IsBlank(At(content, j + 1))
                       \/ StartsWithSlash(At(content, j + 1))))
           THEN /\ loc' = [loc EXCEPT !.j = j + 1]
                /\ pc' = "ai2_end"
           ELSE /\ loc' = [loc EXCEPT !.insert_idx = j + 1, !.i = loc.i + 1]
                /\ pc' = "ai2_scan"
    /\ UNCHANGED <<disk, fstat, content, ri, out, run, orig, after1, trace, io>>

\* lines 40-51
ai2_Insert ==
    /\ pc = "ai2_insert"
    /\ IF loc.insert_idx # None
       THEN /\ content' = SliceAssign(content, loc.insert_idx, loc.insert_idx, pkg_struct)
            /\ out' = out \o <<"Added package-level embeddingItem at line",
                              ToString(loc.insert_idx + 1)>>
       ELSE UNCHANGED <<content, out>>
    /\ pc' = "ai2_fix2"
    /\ UNCHANGED <<disk, fstat, ri, loc, run, orig, after1, trace, io>>

\* lines 59-73
ai2_Fix2 ==
    EditStep(ai2_filepath, 2, <<PROVIDER_OLD>>, [k \in 1..Len(content) |-> RenameProvider(content[k])],
             <<>>, "ai2_fix2", "ai2_write")

ai2_Write == WriteFile(ai2_filepath, "ai2_write", "ai2_read3", <<"Fixed embedding/service.go">>)

ai2_Read3 == ReadFile(autoreply_path, "ai2_read3", "ai2_fix3")
ai2_Fix3 ==
    EditStep(autoreply_path, 3, <<JSON_IMPORT_LINE>>, Replace(content, <<JSON_IMPORT_LINE>>, <<>>),
             <<>>, "ai2_fix3", "ai2_write3")
ai2_Write3 ==
    WriteFile(autoreply_path, "ai2_write3", "done",
              <<"Removed unused encoding/json import from autoreply/service.go",
                "\nAll fixes applied!">>)

MaxServiceParts == 3

ServiceParts ==
    { <<COMMENT_LINE>>,
      <<PKG_TYPE, PKG_FIELD, PKG_CLOSE, BLANK>>,
      <<PKG_TYPE, PKG_FIELD, PKG_CLOSE>>,
      <<PKG_DEF, PKG_FIELD, PKG_CLOSE, BLANK>>,
      <<FUNC_LINE, LOCAL_DEF, LOCAL_FIELD, LOCAL_CLOSE, BLANK, PROVIDER_OLD, BATCH_OLD, PKG_CLOSE>>,
      <<FUNC_LINE, LOCAL_DEF, LOCAL_FIELD, LOCAL_CLOSE, PROVIDER_OLD, PKG_CLOSE, BLANK>>,
      <<FUNC_LINE, PROVIDER_OLD, PKG_CLOSE>>,
      <<FUNC_LINE, LOCAL_DEF, LOCAL_FIELD>> }

ServiceGoInputs == {Flatten(parts) : parts \in SeqsUpTo(ServiceParts, MaxServiceParts)}

Ai2Paths == {ai2_filepath, autoreply_path}

InitAi2 ==
    /\ \E c \in ServiceGoInputs, a \in {<<>>, <<"import (\n", JSON_IMPORT_LINE, ")\n">>} :
          disk = (ai2_filepath :> c) @@ (autoreply_path :> a)
    /\ \E p \in Ai2Paths, st \in {"ok", "missing", "readonly"} :
          fstat = [AllOk(Ai2Paths) EXCEPT ![p] = st]
    /\ MissingIsEmpty
    /\ Start("ai2_read")

NextAi2 ==
    \/ ai2_Read
    \/ ai2_Find
    \/ ai2_Remove
    \/ ai2_Scan
    \/ ai2_End
    \/ ai2_Insert
    \/ ai2_Fix2
    \/ ai2_Write
    \/ ai2_Read3
    \/ ai2_Fix3
    \/ ai2_Write3

SpecAi2 == InitAi2 /\ [][NextAi2]_vars

\* the lines that open a definition of struct embeddingItem
DefLines(f) == {k \in 1..Len(f) : f[k] \in {LOCAL_DEF, PKG_DEF}}

\* the line that closes the definition opened at line k, Len(f) if none does
DefEnd(f, k) ==
    IF \E m \in k..Len(f) : IsCloseBrace(f[m])
    THEN CHOOSE m \in k..Len(f) : IsCloseBrace(f[m]) /\ \A n \in k..(m - 1) : ~IsCloseBrace(f[n])
    ELSE Len(f)

\* the lines of f outside every definition of embeddingItem, blank lines
\* left out
RECURSIVE OtherLines(_, _)
OtherLines(f, k) ==
    IF k > Len(f) THEN <<>>
    ELSE IF k \in DefLines(f) THEN OtherLines(f, DefEnd(f, k) + 1)
    ELSE IF IsBlank(f[k]) THEN OtherLines(f, k + 1)
    ELSE <<f[k]>> \o OtherLines(f, k + 1)

\* C22: when service.go held at most one definition of embeddingItem, the
\* file that fix_ai2.py writes holds exactly one, it is the package-level
\* form and stands before the first func line, and the lines outside the
\* definition are those of the input in their order (blank lines and the
\* renaming of Fix 2 apart).
C22_StructMoved ==
    (Writes(ai2_filepath) # {} /\ Cardinality(DefLines(orig[ai2_filepath])) <= 1) =>
        LET f == disk[ai2_filepath]
            o == OtherLines(orig[ai2_filepath], 1)
        IN  /\ Cardinality(DefLines(f)) = 1
            /\ \A k \in DefLines(f) :
                  /\ f[k] = PKG_DEF
                  /\ \A m \in 1..k : ~IsFunc(f[m])
            /\ OtherLines(f, 1) = [k \in 1..Len(o) |-> RenameProvider(o[k])]

----------------------------------------------------------------------------
(* src/scripts/fix_webhook_response.py: models/webhook.go as pieces of     *)
(* text and newlines; a line ends after each newline                       *)

WR_COMMENT == "// WebhookResponse is the API response for a webhook"
WR_TYPE == "type WebhookResponse struct {"
WR_FIELDS == "\tID uuid.UUID 'json:\"id\"'\n ... \tCreatedAt time.Time 'json:\"created_at\"'"
PACKAGE_LINE == "package models"

webhook_response == <<NL, WR_COMMENT, NL, WR_TYPE, NL, WR_FIELDS, NL, RBRACE, NL>>

\* '// WebhookResponse is the API response' in line
HasResponseComment(text) == Contains(text, <<WR_COMMENT>>)

\* where the line of piece k starts: after the last newline before k
LineStart(text, k) ==
    IF \E m \in 1..(k - 1) : text[m] = NL
    THEN (CHOOSE m \in 1..(k - 1) : text[m] = NL /\ \A n \in (m + 1)..(k - 1) : text[n] # NL) + 1
    ELSE 1

\* ''.join(lines[:start_idx]) for the first line that holds the comment
BeforeResponse(text) ==
    IF HasResponseComment(text)
    THEN SubSeq(text, 1, LineStart(text, Find(text, <<WR_COMMENT>>)) - 1)
    ELSE text

wr_Read == ReadFile(webhook_path, "wr_read", "wr_find")

\* lines 8-15
wr_Find ==
    IF HasResponseComment(content)
    THEN EditStep(webhook_path, 1, <<WR_COMMENT>>, BeforeResponse(content), <<>>,
                  "wr_find", "wr_write")
    ELSE SkipStep("wr_find", "wr_write")

\* lines 33-37
wr_Write ==
    WriteText(webhook_path, content \o webhook_response, "wr_write", "wr_end",
              <<"Added WebhookResponse with proper formatting">>)

wr_Rerun == Rerun("wr_end", "wr_read")

MaxResponseLen == 4

ResponseGoInputs == SeqsUpTo({NL, PACKAGE_LINE, WR_COMMENT, WR_TYPE, RBRACE}, MaxResponseLen)

InitResponse ==
    /\ \E c \in ResponseGoInputs : disk = (webhook_path :> c)
    /\ \E st \in {"ok", "missing", "readonly"} : fstat = (webhook_path :> st)
    /\ MissingIsEmpty
    /\ Start("wr_read")

NextResponse ==
    \/ wr_Read
    \/ wr_Find
    \/ wr_Write
    \/ wr_Rerun

SpecResponse == InitResponse /\ [][NextResponse]_vars

\* C23: once fix_webhook_response.py has written webhook.go, the lines that
\* stood before the first '// WebhookResponse is the API response' line are
\* still the start of the file, the file holds exactly one
\* 'type WebhookResponse struct' line, and a second run leaves the file as
\* the first run left it.
C23_ResponseOnce ==
    Writes(webhook_path) # {} =>
        LET f == disk[webhook_path]
            kept == BeforeResponse(orig[webhook_path])
        IN  /\ StartsWith(f, kept)
            /\ Count(f, <<WR_TYPE>>) = 1
            /\ (run = 2 /\ pc = "wr_end") => f = after1[webhook_path]

----------------------------------------------------------------------------
(* Claims about one docker-compose.yml script run after another            *)

\* process p wrote docker-compose.yml before process q read it
WroteBeforeRead(p, q) ==
    \E k \in Writes(compose_path), j \in Reads(compose_path) :
        io[k].run = p /\ io[j].run = q /\ k < j

ReportsFixed ==
    \/ Contains(out["fix_coredns"], <<"Fixed docker-compose.yml healthcheck">>)
    \/ Contains(out["fix_coredns"], <<"Fixed docker-compose.yml healthcheck (regex)">>)

\* C24: when fix_compose_healthcheck has reported the healthcheck fixed and
\* written docker-compose.yml, and fix_coredns_hc.py has then run from its
\* read to its end (fix_compose_db.py not started), no healthcheck test
\* with CMD-SHELL is left in the file.
C24_HealthcheckDisabled ==
    (/\ ReportsFixed
     /\ WroteBeforeRead("fix_coredns", "fix_coredns_hc")
     /\ pc["fix_coredns_hc"] = "done"
     /\ pc["fix_compose_db"] = "db_read")
    => ~HasText(disk[compose_path], {NEW_BODY})

----------------------------------------------------------------------------
(* src/scripts/fix_dup.py: models.go as a sequence of lines                *)

REMINDERS_FIELD == "\tReminders []Reminder 'json:\"reminders\"'\n"
REMINDERS_FIELD_PTR == "\tReminders []ReminderRequest 'json:\"reminders\"'\n"
REMINDERS_COMMENT == "\t// Reminders of the event\n"
ALARMS_FIELD == "\tAlarms []Reminder 'json:\"alarms\"'\n"
TITLE_FIELD == "\tTitle string 'json:\"title\"'\n"

\* 'Reminders' in line
HasRemindersWord == {REMINDERS_FIELD, REMINDERS_FIELD_PTR, REMINDERS_COMMENT}
\* '[]Reminder' in line
HasReminderSlice == {REMINDERS_FIELD, REMINDERS_FIELD_PTR, ALARMS_FIELD}

dup_Read == ReadInto(models_path, "dup_read", "dup_loop", [seen_reminders |-> FALSE, new_lines |-> <<>>])

\* one turn of `for line in lines` with the test of line 10 left out of the
\* skip: every line is appended
dup_Loop_keeps_all ==
    /\ pc = "dup_loop"
    /\ IF ri > Len(content)
       THEN /\ pc' = "dup_write"
            /\ UNCHANGED <<ri, loc>>
       ELSE /\ loc' = [loc EXCEPT !.new_lines = Append(@, content[ri])]
            /\ ri' = ri + 1
            /\ pc' = "dup_loop"
    /\ UNCHANGED <<disk, fstat, content, out, run, orig, after1, trace, io>>

\* lines 8-13: one turn of `for line in lines`, ri counting the lines
dup_Loop ==
    /\ pc = "dup_loop"
    /\ IF ri > Len(content)
       THEN /\ pc' = "dup_write"
            /\ UNCHANGED <<ri, loc>>
       ELSE LET line == content[ri]
                both == line \in HasRemindersWord /\ line \in HasReminderSlice
            IN  /\ loc' = IF both /\ loc.seen_reminders
                          THEN loc
                          ELSE [seen_reminders |-> loc.seen_reminders \/ both,
                                new_lines |-> Append(loc.new_lines, line)]
                /\ ri' = ri + 1
                /\ pc' = "dup_loop"
    /\ UNCHANGED <<disk, fstat, content, out, run, orig, after1, trace, io>>

dup_Write ==
    /\ pc = "dup_write"
    /\ WriteText(models_path, loc.new_lines, "dup_write", "done",
                 <<"Removed duplicate Reminders field">>)

MaxModelsLines == 4

ModelsGoInputs ==
    SeqsUpTo({REMINDERS_FIELD, REMINDERS_FIELD_PTR, REMINDERS_COMMENT, ALARMS_FIELD, TITLE_FIELD},
             MaxModelsLines)

InitDup ==
    /\ \E c \in ModelsGoInputs : disk = (models_path :> c)
    /\ \E st \in {"ok", "missing", "readonly"} : fstat = (models_path :> st)
    /\ MissingIsEmpty
    /\ Start("dup_read")

NextDup ==
    \/ dup_Read
    \/ dup_Loop
    \/ dup_Write

SpecDup == InitDup /\ [][NextDup]_vars

\* the lines of f that hold both 'Reminders' and '[]Reminder'
RemindersLines(f) == {k \in 1..Len(f) : f[k] \in HasRemindersWord \cap HasReminderSlice}

\* the lines of f that do not
OtherModelLines(f) == SelectSeq(f, LAMBDA l : l \notin HasRemindersWord \cap HasReminderSlice)

\* C25: the models.go that fix_dup.py writes holds at most one line with
\* both 'Reminders' and '[]Reminder'; that line is the first such line of
\* the input, where it stood; every other line of the input is in the
\* output, unchanged and in the same order.
C25_FirstKept ==
    Writes(models_path) # {} =>
        LET f == disk[models_path]
            o == orig[models_path]
        IN  /\ Cardinality(RemindersLines(f)) <= 1
            /\ RemindersLines(o) # {} =>
                  \E k \in RemindersLines(o) :
                      /\ \A m \in RemindersLines(o) : k <= m
                      /\ RemindersLines(f) = {k}
                      /\ f[k] = o[k]
            /\ OtherModelLines(f) = OtherModelLines(o)

\* a models.go with two different Reminders lines and other lines around
\* them has been rewritten
C25_Witness ==
    /\ pc = "done"
    /\ Cardinality(RemindersLines(orig[models_path])) >= 2
    /\ \E k \in RemindersLines(orig[models_path]) : orig[models_path][k] # orig[models_path][1]
    /\ Len(disk[models_path]) < Len(orig[models_path])
    /\ Len(OtherModelLines(orig[models_path])) >= 1

----------------------------------------------------------------------------
(* src/fix_compose_db.py run alone, twice in a row                         *)

\* the operator starts fix_compose_db.py again on the file the first run left
db_Rerun ==
    /\ pc["fix_compose_db"] = "done"
    /\ run = 1
    /\ run' = 2
    /\ after1' = disk
    /\ ri' = 1
    /\ pc' = [pc EXCEPT !["fix_compose_db"] = "db_read"]
    /\ UNCHANGED <<disk, fstat, content, loc, out, orig, trace, io>>

\* docker-compose.yml with database lines at and away from the two lines
ComposeDbInputs ==
    ComposeInputs
        \cup { Pad(Pad(<<l0>>, db_lines[1]) \o <<l1>>, db_lines[2]) \o <<l2, l3>> :
                 l0 \in {DB_URL_PGBOUNCER, Fill(1)},
                 l1 \in {DB_URL_PGBOUNCER, DB_URL_POSTGRES},
                 l2 \in {DB_URL_PGBOUNCER, DEPENDS_PGBOUNCER},
                 l3 \in {DB_URL_PGBOUNCER, Fill(1)} }
        \cup { <<>>, Pad(<<>>, db_lines[1]), Pad(<<DB_URL_PGBOUNCER>>, db_lines[2]) }

InitComposeDb ==
    /\ \E f \in ComposeDbInputs : disk = (compose_path :> f)
    /\ \E st \in {"ok", "missing", "readonly"} : fstat = (compose_path :> st)
    /\ MissingIsEmpty
    /\ pc = ("fix_coredns" :> "hcfix_read") @@ ("fix_coredns_hc" :> "hc_read")
            @@ ("fix_compose_db" :> "db_read")
    /\ content = [p \in Procs |-> <<>>]
    /\ out = [p \in Procs |-> <<>>]
    /\ ri = 1
    /\ loc = <<>>
    /\ run = 1
    /\ orig = disk
    /\ after1 = disk
    /\ trace = <<>>
    /\ io = <<>>

NextComposeDb ==
    \/ db_Read
    \/ db_Loop
    \/ db_LoopEnd
    \/ db_Write
    \/ db_Rerun

SpecComposeDb == InitComposeDb /\ [][NextComposeDb]_vars

\* lines[idx] for idx < NLines(f)
LineAt(f, idx) == f[ChunkIndex(f, idx)]

\* C26: when a run of fix_compose_db.py has ended, docker-compose.yml has
\* as many lines as before the first run, a line differs from the input
\* only if it is line 614 or line 657 and held both 'pgbouncer' and
\* 'sslmode=require' in the input, and the end of a second run leaves the
\* file as the first run left it.
C26_Frame ==
    pc["fix_compose_db"] = "done" =>
        LET f == disk[compose_path]
            o == orig[compose_path]
        IN  /\ NLines(f) = NLines(o)
            /\ \A idx \in 0..(NLines(o) - 1) :
                  LineAt(f, idx) # LineAt(o, idx) =>
                      /\ idx + 1 \in {614, 657}
                      /\ LineAt(o, idx) \in HasPgbouncer \cap HasSslmodeRequire
            /\ run = 2 => f = after1[compose_path]

\* two runs have ended on a file whose line 614 was rewritten, whose line
\* 657 names pgbouncer without sslmode=require, and whose first line holds
\* both words
C26_Witness ==
    /\ pc["fix_compose_db"] = "done"
    /\ run = 2
    /\ NLines(orig[compose_path]) > 656
    /\ LineAt(orig[compose_path], 613) = DB_URL_PGBOUNCER
    /\ LineAt(disk[compose_path], 613) = DB_URL_POSTGRES
    /\ LineAt(orig[compose_path], 656) = DEPENDS_PGBOUNCER
    /\ LineAt(disk[compose_path], 0) = DB_URL_PGBOUNCER

----------------------------------------------------------------------------
(* src/scripts/final_smoke_test.py: content is the list `results`, loc the *)
(* script's variables, trace the calls of http_post and log                *)

health_checks ==
    << "Auth", "Contacts", "Domain Manager", "Storage", "Chat", "SMS Gateway",
       "AI Assistant", "Calendar", "Transactional API" >>
banner_checks == << <<"SMTP:587", "220">>, <<"SMTP:25", "220">>, <<"IMAP:143", "OK">> >>
tests == <<"Contacts", "Calendar", "Chat Channels", "Storage Quota", "Domain Manager">>

\* bodies of responses
TOKEN_BODY == "{\"TokenPair\": {\"AccessToken\": \"abc\"}}"
USER_BODY == "{\"id\": \"u1\"}"
ERROR_BODY == "{\"error\": \"email already registered\"}"
HTML_BODY == "<html>502 Bad Gateway</html>"
MESSAGES_BODY == "{\"messages_count\": 2}"
LONG_MESSAGES_BODY == "{\"messages\": [ ... more than 500 characters ... ]}"
EMPTY_BODY == ""
EMPTY_DICT == "{}"
ERROR_DICT == "{\"error\": str(e)}"

\* the texts that json.loads parses; it raises on every other text
JsonTexts == {TOKEN_BODY, USER_BODY, ERROR_BODY, MESSAGES_BODY}

\* what the server does with a request: a response, an HTTP error response,
\* or no connection
Response(code, body) == [kind |-> "response", code |-> code, body |-> body]
ErrorResponse(code, body) == [kind |-> "http_error", code |-> code, body |-> body]
NoConnection == [kind |-> "no_connection", code |-> 0, body |-> EMPTY_BODY]

\* http_post: the pair it returns, or raised = TRUE.  In the HTTPError
\* handler e.read() is called twice: the test reads the body, the second
\* call finds the stream at its end and gives the empty string.
http_post(o) ==
    CASE o.kind = "response" ->
            IF o.body \in JsonTexts
            THEN [raised |-> FALSE, status |-> o.code, data |-> o.body]
            ELSE [raised |-> FALSE, status |-> 0, data |-> ERROR_DICT]
      [] o.kind = "http_error" ->
            IF o.body # EMPTY_BODY
            THEN IF EMPTY_BODY \in JsonTexts
                 THEN [raised |-> FALSE, status |-> o.code, data |-> EMPTY_BODY]
                 ELSE [raised |-> TRUE, status |-> o.code, data |-> EMPTY_BODY]
            ELSE [raised |-> FALSE, status |-> o.code, data |-> EMPTY_DICT]
      [] OTHER -> [raised |-> FALSE, status |-> 0, data |-> ERROR_DICT]

\* data.get("TokenPair", {}).get("AccessToken", "")
AccessToken(data) == IF data = TOKEN_BODY THEN "abc" ELSE ""

Icon(status) == IF status = "PASS" THEN "ok" ELSE IF status = "FAIL" THEN "x" ELSE "warn"

Failed(results) == Len(SelectSeq(results, LAMBDA r : r.status = "FAIL"))
Passed(results) == Len(SelectSeq(results, LAMBDA r : r.status = "PASS"))

\* the most checks that the services let fail in one run
MaxFailures == 3

CanLog(status) == status = "FAIL" => Failed(content) < MaxFailures

LogCall(test, status) == [call |-> "log", arg |-> test, raised |-> FALSE, status |-> status]
PostCall(o) ==
    [call |-> "http_post", arg |-> o, raised |-> http_post(o).raised, status |-> http_post(o).status]

\* one check: the calls made, then log(test, status, detail); header is what
\* is printed before the check
Check(here, next, nextri, header, test, status, detail, calls, locals) ==
    /\ pc = here
    /\ CanLog(status)
    /\ content' = Append(content, [test |-> test, status |-> status, detail |-> detail])
    /\ out' = out \o header \o <<Icon(status), test>> \o detail
    /\ trace' = trace \o calls \o <<LogCall(test, status)>>
    /\ ri' = nextri
    /\ loc' = locals
    /\ pc' = next
    /\ UNCHANGED <<disk, fstat, run, orig, after1, io>>

\* an exception that nothing catches ends the script
Raise(here, calls) ==
    /\ pc = here
    /\ trace' = trace \o calls
    /\ pc' = "traceback"
    /\ UNCHANGED <<disk, fstat, content, ri, loc, out, run, orig, after1, io>>

Http(s) == <<"HTTP", ToString(s)>>

\* lines 59-61
smoke_Health ==
    \E s \in {200, 503} :
        Check("phase1",
              IF ri = Len(health_checks) THEN "phase2" ELSE "phase1",
              IF ri = Len(health_checks) THEN 1 ELSE ri + 1,
              IF ri = 1 THEN <<"OONRUMAIL PLATFORM - FINAL SMOKE TEST", "PHASE 1: Service Health Checks">>
                        ELSE <<>>,
              health_checks[ri], IF s = 200 THEN "PASS" ELSE "FAIL", Http(s), <<>>, loc)

\* lines 67-69
smoke_Banner ==
    \E r \in {<<TRUE, "220 mail ESMTP">>, <<TRUE, "* OK IMAP4 ready">>, <<FALSE, "Connection refused">>} :
        LET ok == r[1]
            banner == r[2]
            expect == banner_checks[ri][2]
            found == \/ expect = "220" /\ banner = "220 mail ESMTP"
                     \/ expect = "OK" /\ banner = "* OK IMAP4 ready"
        IN  Check("phase2",
                  IF ri = Len(banner_checks) THEN "register" ELSE "phase2",
                  IF ri = Len(banner_checks) THEN 1 ELSE ri + 1,
                  IF ri = 1 THEN <<"PHASE 2: Protocol Banners">> ELSE <<>>,
                  banner_checks[ri][1], IF ok /\ found THEN "PASS" ELSE "FAIL", <<banner>>, <<>>, loc)

RegisterOutcomes ==
    { Response(201, USER_BODY), Response(200, HTML_BODY), ErrorResponse(409, ERROR_BODY),
      ErrorResponse(500, EMPTY_BODY), NoConnection }

LoginOutcomes ==
    { Response(200, TOKEN_BODY), Response(200, USER_BODY), ErrorResponse(401, ERROR_BODY),
      ErrorResponse(401, EMPTY_BODY), NoConnection }

\* lines 75-79
smoke_Register ==
    \E o \in RegisterOutcomes :
        IF http_post(o).raised
        THEN Raise("register", <<PostCall(o)>>)
        ELSE Check("register", "login", 1, <<"PHASE 3: Authentication">>,
                   "Register", IF http_post(o).status = 201 THEN "PASS" ELSE "FAIL",
                   Http(http_post(o).status), <<PostCall(o)>>, loc)

\* lines 81-83
smoke_Login ==
    \E o \in LoginOutcomes :
        IF http_post(o).raised
        THEN Raise("login", <<PostCall(o)>>)
        ELSE LET token == AccessToken(http_post(o).data)
                 s == http_post(o).status
             IN  Check("login", IF token # "" THEN "profile" ELSE "phase4", 1, <<>>,
                       "Login", IF s = 200 /\ token # "" THEN "PASS" ELSE "FAIL",
                       Http(s) \o <<IF token # "" THEN "token=yes" ELSE "token=no">>,
                       <<PostCall(o)>>, [token |-> token])

\* lines 85-87
smoke_Profile ==
    \E s \in {200, 401} :
        Check("profile", "phase4", 1, <<>>, "Get Profile",
              IF s = 200 THEN "PASS" ELSE "FAIL", Http(s), <<>>, loc)

\* lines 103-105: the services answer 200 to a request with a token and 401
\* to one without, or fail
smoke_Api ==
    /\ pc = "phase4"
    /\ \E s \in {IF loc.token # "" THEN 200 ELSE 401, 500} :
        Check("phase4",
              IF ri = Len(tests) THEN "tx_health" ELSE "phase4",
              IF ri = Len(tests) THEN 1 ELSE ri + 1,
              IF ri = 1 THEN <<"PHASE 4: API Endpoints">> ELSE <<>>,
              tests[ri], IF s \in {200, 401, 403} THEN "PASS" ELSE "FAIL", Http(s), <<>>, loc)

\* lines 111-112
smoke_TxHealth ==
    \E s \in {200, 0} :
        Check("tx_health", "mailpit", 1, <<"PHASE 5: Transactional Email API">>, "Tx Health",
              IF s = 200 THEN "PASS" ELSE "FAIL", Http(s), <<>>, loc)

\* lines 118-124: http_get cuts the body at 500 characters, and json.loads
\* raises on what is left of a longer body
smoke_Mailpit ==
    \E r \in {<<200, MESSAGES_BODY>>, <<200, LONG_MESSAGES_BODY>>, <<0, "Connection refused">>} :
        IF r[1] = 200
        THEN IF r[2] \in JsonTexts
             THEN Check("mailpit", "summary", 1, <<"PHASE 6: Mailpit">>, "Mailpit", "PASS",
                        Http(r[1]) \o <<"2 messages">>, <<>>, loc)
             ELSE Raise("mailpit", <<>>)
        ELSE Check("mailpit", "summary", 1, <<"PHASE 6: Mailpit">>, "Mailpit", "FAIL",
                   Http(r[1]), <<>>, loc)

status_text(failed) ==
    IF failed = 0 THEN "PLATFORM READY"
    ELSE IF failed < 3 THEN "PARTIALLY OPERATIONAL"
    ELSE "NEEDS ATTENTION"

\* the summary with the second limit at `failed <= 3`
smoke_Summary_at_most_3 ==
    /\ pc = "summary"
    /\ LET passed == Passed(content)
           failed == Failed(content)
           total == Len(content)
           text == IF failed = 0 THEN "PLATFORM READY"
                      ELSE IF failed <= 3 THEN "PARTIALLY OPERATIONAL"
                      ELSE "NEEDS ATTENTION"
       IN  /\ loc' = [token |-> loc.token, passed |-> passed, failed |-> failed,
                      total |-> total, status_text |-> text]
           /\ out' = out \o <<"SUMMARY", "Passed", ToString(passed), ToString(total)>>
                         \o (IF failed # 0 THEN <<"Failed", ToString(failed)>> ELSE <<>>)
                         \o <<text>>
    /\ pc' = "done"
    /\ UNCHANGED <<disk, fstat, content, ri, run, orig, after1, trace, io>>

\* lines 127-144
smoke_Summary ==
    /\ pc = "summary"
    /\ LET passed == Passed(content)
           failed == Failed(content)
           total == Len(content)
       IN  /\ loc' = [token |-> loc.token, passed |-> passed, failed |-> failed,
                      total |-> total, status_text |-> status_text(failed)]
           /\ out' = out \o <<"SUMMARY", "Passed", ToString(passed), ToString(total)>>
                         \o (IF failed # 0 THEN <<"Failed", ToString(failed)>> ELSE <<>>)
                         \o <<status_text(failed)>>
    /\ pc' = "done"
    /\ UNCHANGED <<disk, fstat, content, ri, run, orig, after1, trace, io>>

InitSmoke ==
    /\ disk = <<>>
    /\ fstat = <<>>
    /\ Start("phase1")

NextSmoke ==
    \/ smoke_Health
    \/ smoke_Banner
    \/ smoke_Register
    \/ smoke_Login
    \/ smoke_Profile
    \/ smoke_Api
    \/ smoke_TxHealth
    \/ smoke_Mailpit
    \/ smoke_Summary

SpecSmoke == InitSmoke /\ [][NextSmoke]_vars

\* the calls of http_post made so far
PostCalls == {k \in 1..Len(trace) : trace[k].call = "http_post"}

\* C27: no call of http_post raises: each returns a pair whose status is
\* the HTTP status code of the response, or 0 when there was no connection,
\* and a log call for the check follows it.
C27_PostNeverRaises ==
    \A k \in PostCalls :
        /\ ~trace[k].raised
        /\ trace[k].status = trace[k].arg.code
        /\ k < Len(trace) /\ trace[k + 1].call = "log"

\* the number of log calls made so far
LogCalls == {k \in 1..Len(trace) : trace[k].call = "log"}

\* C29: when the summary has been printed, every log call is one entry of
\* results, passed + failed is the number of results, and the last line is
\* PLATFORM READY exactly when no check failed, PARTIALLY OPERATIONAL exactly
\* when one or two failed, NEEDS ATTENTION exactly when three or more failed.
C29_SummaryAccounting ==
    pc = "done" =>
        LET fails == Cardinality({k \in LogCalls : trace[k].status = "FAIL"})
        IN  /\ loc.total = Cardinality(LogCalls)
            /\ Len(content) = Cardinality(LogCalls)
            /\ loc.passed + loc.failed = loc.total
            /\ loc.failed = fails
            /\ (loc.status_text = "PLATFORM READY") <=> (fails = 0)
            /\ (loc.status_text = "PARTIALLY OPERATIONAL") <=> (fails \in {1, 2})
            /\ (loc.status_text = "NEEDS ATTENTION") <=> (fails >= 3)

\* the summary of a run in which exactly three checks failed
C29_Witness ==
    /\ pc = "done"
    /\ loc.failed = 3
    /\ loc.passed >= 1
    /\ loc.status_text = "NEEDS ATTENTION"

----------------------------------------------------------------------------
(* The scripts with scanning loops, each run to its end without being      *)
(* interrupted: fix_calendar_final.py, fix_ai2.py, fix_webhook.py          *)

MaxLoopParts == 2

LoopServiceInputs == {Flatten(parts) : parts \in SeqsUpTo(ServiceParts, MaxLoopParts)}

InitLoops ==
    /\ \/ /\ \E h \in HandlerInputs :
                disk = (port_path :> <<>>) @@ (handlers_calendar_path :> h) @@ (caldav_path :> <<"x">>)
          /\ fstat = AllOk(KillPaths)
          /\ Start("fh_read")
       \/ /\ \E c \in LoopServiceInputs :
                disk = (ai2_filepath :> c) @@ (autoreply_path :> <<>>)
          /\ fstat = AllOk(Ai2Paths)
          /\ Start("ai2_read")
       \/ /\ \E f \in WebhookGoInputs : disk = (wh_filepath :> f)
          /\ fstat = (wh_filepath :> "ok")
          /\ Start("wh_read")

NextLoops ==
    \/ fh_Read
    \/ fh_Loop
    \/ fh_Skip
    \/ fh_LoopEnd
    \/ fh_Open
    \/ fh_Write
    \/ fh_Close
    \/ cd_Read
    \/ cd_Rule
    \/ cd_Open
    \/ cd_Write
    \/ cd_Close
    \/ ai2_Read
    \/ ai2_Find
    \/ ai2_Remove
    \/ ai2_Scan
    \/ ai2_End
    \/ ai2_Insert
    \/ ai2_Fix2
    \/ ai2_Write
    \/ ai2_Read3
    \/ ai2_Fix3
    \/ ai2_Write3
    \/ wh_Read
    \/ wh_Fix1
    \/ wh_Find
    \/ wh_Scan
    \/ wh_Replace
    \/ wh_Write

\* a script that is not interrupted goes on to its next statement
SpecLoops == InitLoops /\ [][NextLoops]_vars /\ WF_vars(NextLoops)

\* C28: a script that has read its file and is in or before one of its
\* scanning loops reaches its write step: fix_handlers_calendar, fix_ai2.py
\* and fix_webhook.py.
C28_Termination ==
    /\ pc \in {"fh_loop", "fh_skip"} ~> pc = "fh_open"
    /\ pc \in {"ai2_find", "ai2_remove", "ai2_scan", "ai2_end", "ai2_insert", "ai2_fix2"}
          ~> pc = "ai2_write"
    /\ pc \in {"wh_fix1", "wh_find", "wh_scan", "wh_replace"} ~> pc = "wh_write"

\* fix_handlers_calendar is at its write step after the skip loop ran to the
\* end of a file that has no ShareCalendar line
C28_Witness ==
    /\ pc = "fh_open"
    /\ Contains(content, <<UUID_PARSE>>)
    /\ ~Contains(content, <<SHARE_CALL>>)
    /\ Len(content) >= MaxHandlerLines
    /\ loc.i = Len(content)

=============================================================================
